---- MODULE Spec2Model ----
\* Model of the ZooKeeper-backed transaction coordinator ZKTransaction
\* (src/AppDB/zkappscale/zktransaction.py) for one application.
\*
\* The coordination service is modelled as a linearizable name-space: every
\* ZooKeeper request is one atomic step.  A request issued with *_async takes
\* effect when it is issued (requests of one session are served in FIFO order)
\* and its error, which the code never reads, is dropped.
\* Each thread runs one coordinator method at a time, one ZooKeeper request per
\* step, so that requests of different threads interleave freely.
EXTENDS Integers, Sequences, FiniteSets, TLC

\* ---------------------------------------------------------------- constants
TX_TIMEOUT == 30
GC_INTERVAL == 30
MAX_GROUPS_FOR_XG == 5
DEFAULT_NUM_RETRIES == 5
DEFAULT_ZK_TIMEOUT == 3

\* ------------------------------------------------------------------- bounds
\* Caller threads of the concurrent specification.
NumClients == 2
\* Largest sequence number the transaction-id sequence may hand out.
MaxTxId == 3
\* Largest transaction id of the concurrent specification Spec.
ConcTxIds == 1
\* Largest transaction id of the sequential specification SpecSeq.
SeqTxIds == 2
\* Largest transaction id of the specifications of the XG cap.
CapTxIds == 1
\* Entity groups of the concurrent specification.
NumKeys == 2
\* The clock stops here.
MaxTime == 31
\* Updated-key entries one transaction node may receive.
MaxUkey == 1
\* The clock of the liveness specification stops here: a transaction begun
\* after the first sweep passes TX_TIMEOUT, and a second sweep falls due.
LiveMaxTime == 62
\* updated keys one transaction registers in the journal specification
JournalUkeys == 2
\* Worker threads that calls of start_gc may create after the constructor's.
MaxStarted == 1

\* ------------------------------------------------------------------- values
\* A node that does not exist (a kazoo NoNodeError on get).
NoNode == -1
\* The value of a transaction node that makepath=True created as a parent.
EmptyVal == -2
\* A lock root that does not exist.
NoTx == -1
\* A validlist anchor that does not exist.
NoVal == -1
\* No session holds the groomer lock node.
NoHolder == 0
\* One clock tick carries a transaction created before it past TX_TIMEOUT.
TickLen == TX_TIMEOUT + 1

TxIds == 0 .. MaxTxId
\* Transaction ids a caller may pass: 0 is never handed out.
CallerTxIds == 1 .. MaxTxId
\* Entity groups of the sequential specifications (enough to pass the XG cap).
AllKeys == 1 .. (MAX_GROUPS_FOR_XG + 1)
Keys == 1 .. NumKeys
Clients == 1 .. NumClients
\* The lone caller of the sequential specifications.
LoneCaller == {1}
\* The entity group the callers of SpecMutex contend for.
MutexKeys == {1}
\* The garbage-collector worker thread of the coordinator.
GcThreads == {0}
Threads == GcThreads \cup Clients
\* The Thread objects that start_gc creates after the constructor's worker.
StartedThreads == {0 - i : i \in 1 .. MaxStarted}
\* Every thread that can run gc_runner.
GcWorkerThreads == GcThreads \cup StartedThreads

VARIABLES
  \* --- the name-space under /appscale/apps/<app>
  appRoot,        \* the application's root node exists
  txSeq,          \* next sequence number of txids/tx
  txNode,         \* txids/tx<id>: NoNode, EmptyVal or the creation timestamp
  xgNode,         \* txids/tx<id>/xg exists
  lockpath,       \* txids/tx<id>/lockpath: the lock list, <<>> when missing
  ukeys,          \* txids/tx<id>/ukey<n>: set of [n, val], val the value
  ukeySeq,        \* next sequence number of txids/tx<id>/ukey
  lockRoot,       \* locks/<key>: the transaction whose path is its value
  blacklistRoot,  \* txids/blacklist exists
  blacklist,      \* children of txids/blacklist
  validRoot,      \* txids/validlist exists
  validlist,      \* txids/validlist/<key>: the value, NoVal when missing
  gclock,         \* gclock exists
  gclast,         \* gclast_time: NoVal or the timestamp
  \* --- the environment
  now,            \* time.time()
  \* --- the threads
  th,             \* per thread: program counter, arguments and locals
  \* --- history
  issued,         \* the ids get_transaction_id has returned so far
  xgTx,           \* the ids handed out to get_transaction_id(is_xg=True)
  trail,          \* what the calls that returned so far were and did
  track,          \* the parts of trail that are recorded
  pre,            \* the name-space when the latest call of a lone caller began
  lone,           \* the coordinator has one caller, who makes one call at a time
  \* --- the coordinator object
  coord,          \* gc_running, and whether the session handle is started
  \* --- the name-space outside /appscale/apps
  groomLock       \* /appscale_datastore_groomer: the session that created it

zk == <<appRoot, txSeq, txNode, xgNode, lockpath, ukeys, ukeySeq, lockRoot,
        blacklistRoot, blacklist, validRoot, validlist, gclock, gclast>>
hist == <<issued, xgTx, trail, track>>
vars == <<zk, now, th, hist, pre, lone, coord, groomLock>>

\* ------------------------------------------------------------------ helpers
\* The largest member of a set of naturals, 0 for the empty set.
SetMax(S) == IF S = {} THEN 0 ELSE CHOOSE x \in S : \A y \in S : y <= x

SeqToSet(s) == {s[i] : i \in 1 .. Len(s)}

\* ------------------------------------------------------ strings and values
\* Strings are sequences of characters.  The entity keys of the model are
\* numbered; KeyName[k] is the key string the caller passes for key k.
KeyName ==
  <<  <<"k", "1">>,  <<"a", " ", "b">>,  <<"a", "+", "b">>,
      <<"a", "/", "b">>,  <<"%", "2", "F">>,  <<"a", "%", "b">>  >>

\* The number of the key named s, 0 when s names no key of the model.
KeyNamed(s) ==
  IF \E k \in DOMAIN KeyName : KeyName[k] = s
  THEN CHOOSE k \in DOMAIN KeyName : KeyName[k] = s
  ELSE 0

\* urllib.always_safe, as far as the key names and the values use it.
AlwaysSafe == {"a", "b", "k", "F", "B", "0", "1", "2", "5"}

\* '%%%02X' % ord(c) without the percent sign.
HexOf(c) ==
  CASE c = "+" -> <<"2", "B">>
    [] c = "/" -> <<"2", "F">>
    [] c = "%" -> <<"2", "5">>
    [] c = " " -> <<"2", "0">>
    [] OTHER -> <<"3", "F">>

\* A quote_plus that returns its argument as it is.
NoQuote(s) == s

\* urllib.quote_plus(s): quote(s, ' ') keeps the safe characters and the
\* blank and writes the others as %XX; then the blanks become '+'.
RECURSIVE quote_plus(_)
quote_plus(s) ==
  IF s = <<>> THEN <<>>
  ELSE LET c == Head(s)
       IN (IF c = " " THEN <<"+">>
           ELSE IF c \in AlwaysSafe THEN <<c>>
           ELSE <<"%">> \o HexOf(c)) \o quote_plus(Tail(s))

HexDigits ==
  {"0", "1", "2", "3", "4", "5", "6", "7", "8", "9",
   "a", "b", "c", "d", "e", "f", "A", "B", "C", "D", "E", "F"}

\* urllib._hextochr[h1 + h2]; "?" stands for every character that no key
\* name of the model holds.
HexToChr(h1, h2) ==
  CASE h1 = "2" /\ h2 \in {"B", "b"} -> "+"
    [] h1 = "2" /\ h2 \in {"F", "f"} -> "/"
    [] h1 = "2" /\ h2 = "5" -> "%"
    [] h1 = "2" /\ h2 = "0" -> " "
    [] OTHER -> "?"

\* urllib.unquote(s): each %XX with two hex digits is the character of that
\* code, every other '%' stays.
RECURSIVE unquote(_)
unquote(s) ==
  IF s = <<>> THEN <<>>
  ELSE IF /\ Head(s) = "%"
          /\ Len(s) >= 3
          /\ s[2] \in HexDigits
          /\ s[3] \in HexDigits
  THEN <<HexToChr(s[2], s[3])>> \o unquote(SubSeq(s, 4, Len(s)))
  ELSE <<Head(s)>> \o unquote(Tail(s))

\* An unquote_plus that returns its argument as it is.
NoUnquote(s) == s

\* urllib.unquote_plus(s): s.replace('+', ' '), then unquote.
unquote_plus(s) ==
  unquote([i \in 1 .. Len(s) |-> IF s[i] = "+" THEN " " ELSE s[i]])

Digits == <<"0", "1", "2", "3", "4", "5", "6", "7", "8", "9">>

\* str(n) of a number that is not negative.
RECURSIVE str(_)
str(n) ==
  IF n < 10 THEN <<Digits[n + 1]>>
  ELSE str(n \div 10) \o <<Digits[(n % 10) + 1]>>

\* int(c) of one decimal digit; the values the coordinator parses hold
\* nothing else.
DigitOf(c) ==
  IF \E i \in 1 .. 10 : Digits[i] = c
  THEN (CHOOSE i \in 1 .. 10 : Digits[i] = c) - 1
  ELSE 0

\* long(s) of a string of decimal digits.
RECURSIVE long(_)
long(s) ==
  IF s = <<>> THEN 0
  ELSE long(SubSeq(s, 1, Len(s) - 1)) * 10 + DigitOf(s[Len(s)])

PATH_SEPARATOR == "/"

\* s.split(PATH_SEPARATOR)
RECURSIVE split(_)
split(s) ==
  IF \A i \in 1 .. Len(s) : s[i] # PATH_SEPARATOR THEN <<s>>
  ELSE LET i == CHOOSE j \in 1 .. Len(s) :
                  /\ s[j] = PATH_SEPARATOR
                  /\ \A h \in 1 .. (j - 1) : s[h] # PATH_SEPARATOR
       IN <<SubSeq(s, 1, i - 1)>> \o split(SubSeq(s, i + 1, Len(s)))

\* PATH_SEPARATOR.join([urllib.quote_plus(entity_key), str(target_txid)])
UkeyValue(k, target) ==
  quote_plus(KeyName[k]) \o <<PATH_SEPARATOR>> \o str(target)

\* A thread that runs no method.
IdleTh ==
  [pc |-> "idle", op |-> "none", tx |-> 0, key |-> 0, tgt |-> 0, xg |-> FALSE,
   create |-> FALSE, locks |-> <<>>, kids |-> {}, txs |-> {}, ret |-> "none",
   retries |-> 0, ts |-> 0, res |-> "none", floor |-> 0, keylist |-> <<>>,
   vid |-> 0, calls |-> 0, conns |-> 0, args |-> TRUE, elapsed |-> 0,
   budget |-> 0, exc |-> "none", apps |-> {}]

\* A Thread object that start_gc has not created yet.
NotStarted == [IdleTh EXCEPT !.pc = "unstarted"]

\* The method of thread p returns or raises r.
Done(p, r) ==
  [IdleTh EXCEPT !.pc = "done", !.op = th[p].op, !.tx = th[p].tx,
                 !.key = th[p].key, !.tgt = th[p].tgt, !.xg = th[p].xg,
                 !.floor = th[p].floor, !.res = r]

\* An exists() that finds every transaction node.
AlwaysTxExists(t) == TRUE

TxExists(t) == txNode[t] # NoNode

\* The children of a transaction node, as get_children lists them.
XgChild == [name |-> "xg", n |-> 0, val |-> <<>>]
LockpathChild == [name |-> "lockpath", n |-> 0, val |-> <<>>]
UkeyChild(u) == [name |-> "ukey", n |-> u.n, val |-> u.val]
Children(t) ==
  (IF xgNode[t] THEN {XgChild} ELSE {})
  \cup (IF lockpath[t] # <<>> THEN {LockpathChild} ELSE {})
  \cup {UkeyChild(u) : u \in ukeys[t]}

\* ZooKeeper refuses to delete a node that has children (NotEmptyError).
CanDeleteTxNode(t) == TxExists(t) /\ Children(t) = {}

\* A create that never meets an existing node.
AnyLockRootFree(k) == TRUE

\* ZooKeeper's create fails with NodeExistsError when the node exists.
LockRootFree(k) == lockRoot[k] = NoTx

\* The cap test with > in place of >=.
GroupCapAbove(list) == Len(list) > MAX_GROUPS_FOR_XG

\* No cap test.
GroupCapNever(list) == FALSE

\* len(lock_list) >= MAX_GROUPS_FOR_XG
GroupCapReached(list) == Len(list) >= MAX_GROUPS_FOR_XG

\* Every transaction taken for a cross-group one.
AlwaysXg(t) == TRUE

\* is_xg: handle.exists(xg_path)
IsXg(t) == xgNode[t]

\* The membership test always failing.
NeverHasLock(k, list) == FALSE

\* lockrootpath in lock_list
AlreadyHasLock(k, list) == k \in SeqToSet(list)

\* No id held back.
NeverReserved(id) == FALSE

\* txn_id == 0 in create_sequence_node
IsReservedId(id) == id = 0

\* The sequence number ZooKeeper hands out after n.
NextSeq(n) == n + 1

\* No call has returned yet.
NoCall == [op |-> "none", tx |-> 0, key |-> 0, tgt |-> 0, res |-> "none"]
NoTrail == [last |-> NoCall, released |-> {}, registered |-> {}, kept |-> {}]

\* The name-space and the threads after ZKTransaction.__init__ on a fresh
\* coordination service.
InitState ==
  /\ appRoot = FALSE
  /\ txSeq = 0
  /\ txNode = [t \in TxIds |-> NoNode]
  /\ xgNode = [t \in TxIds |-> FALSE]
  /\ lockpath = [t \in TxIds |-> <<>>]
  /\ ukeys = [t \in TxIds |-> {}]
  /\ ukeySeq = [t \in TxIds |-> 0]
  /\ lockRoot = [k \in AllKeys |-> NoTx]
  /\ blacklistRoot = FALSE
  /\ blacklist = {}
  /\ validRoot = FALSE
  /\ validlist = [k \in AllKeys |-> NoVal]
  /\ gclock = FALSE
  /\ gclast = NoVal
  /\ now = 0
  /\ th = [p \in Threads \cup StartedThreads |->
             IF p \in StartedThreads THEN NotStarted ELSE IdleTh]
  /\ coord = [gc_running |-> TRUE, handle |-> "started", gcthread |-> 0]
  /\ groomLock = NoHolder
  /\ issued = {}
  /\ xgTx = {}
  /\ trail = NoTrail
  /\ pre = zk

\* Several callers at once.
Init == InitState /\ lone = FALSE /\ track = {}

\* One caller, one call at a time.
InitLone == InitState /\ lone = TRUE /\ track = {}

\* One caller, one call at a time; the previous call and the transactions
\* that release_lock returned True for are recorded.
InitCalls == InitState /\ lone = TRUE /\ track = {"last", "released"}

\* Several callers at once; the transactions that release_lock returned True
\* for are recorded.
InitReleased == InitState /\ lone = FALSE /\ track = {"released"}

\* One caller, one call at a time; the registrations of updated keys that
\* returned True are recorded.
InitJournal == InitState /\ lone = TRUE /\ track = {"registered"}

\* ------------------------------------------------------------ environment
\* Time passes.
Tick ==
  /\ now + TickLen <= MaxTime
  /\ now' = now + TickLen
  /\ UNCHANGED <<zk, th, hist, pre, lone, coord, groomLock>>

\* Time passes, up to the bound max.
TickUpTo(max) ==
  /\ now + TickLen <= max
  /\ now' = now + TickLen
  /\ UNCHANGED <<zk, th, hist, pre, lone, coord, groomLock>>

\* The trail after the call of record r has returned: the call itself, the
\* transaction when release_lock returned True, and the (transaction, key)
\* when register_updated_key returned True, kept apart when no validlist
\* anchor of the key existed as the call began.
Recorded(r) ==
  LET ok(m) == r.op = m /\ r.res = "ok"
      reg == "registered" \in track /\ ok("register_updated_key")
  IN [last |-> IF "last" \in track
               THEN [op |-> r.op, tx |-> r.tx, key |-> r.key, tgt |-> r.tgt,
                     res |-> r.res]
               ELSE trail.last,
      released |-> IF "released" \in track /\ ok("release_lock")
                   THEN trail.released \cup {r.tx} ELSE trail.released,
      registered |-> IF reg THEN trail.registered \cup {<<r.tx, r.key>>}
                     ELSE trail.registered,
      kept |-> IF reg /\ pre[12][r.key] = NoVal
               THEN trail.kept \cup {<<r.tx, r.key>>} ELSE trail.kept]

\* The caller takes the result; the thread is free for the next call.
Return(p) ==
  /\ th[p].pc = "done"
  /\ th' = [th EXCEPT ![p] = IdleTh]
  /\ trail' = Recorded(th[p])
  /\ UNCHANGED <<zk, now, issued, xgTx, track, pre, lone, coord, groomLock>>

\* ------------------------------------------------- get_transaction_id
\* The sequence number a call that starts now gets at the latest: the calls
\* under way take one number each and number 0 is taken and thrown away.
PendingTxSeq ==
  txSeq + Cardinality({q \in Threads :
                         th[q].pc \in {"csn_create", "csn_delete"}})
        + (IF txSeq = 0 THEN 1 ELSE 0)

get_transaction_id(p, isxg, maxid) ==
  /\ th[p].pc = "idle"
  /\ PendingTxSeq <= maxid
  /\ th' = [th EXCEPT ![p] = [IdleTh EXCEPT !.pc = "csn_create",
                                !.op = "get_transaction_id", !.xg = isxg,
                                !.ts = now, !.retries = DEFAULT_NUM_RETRIES,
                                !.floor = SetMax(issued)]]
  /\ pre' = IF lone THEN zk ELSE pre
  /\ UNCHANGED <<zk, now, hist, lone, coord, groomLock>>

\* One pass of the loop of create_sequence_node: the sequence node is created
\* with makepath=True; id 0 is deleted in the next step and the loop goes on.
create_sequence_node(p) ==
  /\ th[p].pc = "csn_create"
  /\ IF th[p].retries <= 0
     THEN /\ th' = [th EXCEPT ![p] = Done(p, "ZKTransactionException")]
          /\ UNCHANGED <<zk, hist>>
     ELSE /\ txSeq <= MaxTxId
          /\ txNode' = [txNode EXCEPT ![txSeq] = th[p].ts]
          /\ txSeq' = NextSeq(txSeq)
          /\ appRoot' = TRUE
          /\ IF IsReservedId(txSeq)
             THEN /\ th' = [th EXCEPT ![p].pc = "csn_delete", ![p].tx = txSeq,
                                      ![p].retries = @ - 1]
                  /\ UNCHANGED hist
             ELSE IF th[p].xg
             THEN /\ th' = [th EXCEPT ![p].pc = "create_node", ![p].tx = txSeq,
                                      ![p].retries = @ - 1]
                  /\ xgTx' = xgTx \cup {txSeq}
                  /\ UNCHANGED issued
             ELSE /\ th' = [th EXCEPT ![p] = [Done(p, "ok") EXCEPT
                                                !.tx = txSeq]]
                  /\ issued' = issued \cup {txSeq}
                  /\ UNCHANGED xgTx
          /\ UNCHANGED <<xgNode, lockpath, ukeys, ukeySeq, lockRoot,
                         blacklistRoot, blacklist, validRoot, validlist,
                         gclock, gclast>>
  /\ UNCHANGED <<now, trail, track, pre, lone, coord, groomLock>>

\* delete_async of the node that got sequence number 0.
create_sequence_node_delete(p) ==
  /\ th[p].pc = "csn_delete"
  /\ txNode' = IF CanDeleteTxNode(th[p].tx)
               THEN [txNode EXCEPT ![th[p].tx] = NoNode] ELSE txNode
  /\ th' = [th EXCEPT ![p].pc = "csn_create"]
  /\ UNCHANGED <<appRoot, txSeq, xgNode, lockpath, ukeys, ukeySeq, lockRoot,
                 blacklistRoot, blacklist, validRoot, validlist, gclock,
                 gclast, now, hist, pre, lone, coord, groomLock>>

\* create_node(xg_path, timestamp): makepath=True re-creates a missing
\* transaction node as a parent with an empty value.
create_node(p) ==
  /\ th[p].pc = "create_node"
  /\ IF xgNode[th[p].tx]
     THEN /\ th' = [th EXCEPT ![p] = Done(p, "NodeExistsError")]
          /\ UNCHANGED <<txNode, xgNode, issued>>
     ELSE /\ xgNode' = [xgNode EXCEPT ![th[p].tx] = TRUE]
          /\ txNode' = IF TxExists(th[p].tx) THEN txNode
                       ELSE [txNode EXCEPT ![th[p].tx] = EmptyVal]
          /\ th' = [th EXCEPT ![p] = Done(p, "ok")]
          /\ issued' = issued \cup {th[p].tx}
  /\ UNCHANGED <<appRoot, txSeq, lockpath, ukeys, ukeySeq, lockRoot,
                 blacklistRoot, blacklist, validRoot, validlist, gclock,
                 gclast, now, xgTx, trail, track, pre, lone, coord, groomLock>>

\* What run_with_timeout can raise from handle.create beside its answer: an
\* error of ZooKeeper that it passes through, or its own timeout.
CreateFaults == {"SystemZookeeperError", "ZKTransactionException:timed out"}

\* One pass of the loop of create_sequence_node in which run_with_timeout
\* raises: "except ZookeeperError: pass" goes on with the loop, anything else
\* leaves the method.
create_sequence_node_fails(p) ==
  /\ th[p].pc = "csn_create"
  /\ th[p].retries > 0
  /\ \E e \in CreateFaults :
       th' = [th EXCEPT ![p] =
                IF e = "SystemZookeeperError"
                THEN [th[p] EXCEPT !.retries = @ - 1]
                ELSE [Done(p, e) EXCEPT !.exc = e]]
  /\ UNCHANGED <<zk, now, hist, pre, lone, coord, groomLock>>

\* The pass of the loop of create_node in which run_with_timeout raises: the
\* try has a finally and no except, so the error leaves the method.
create_node_fails(p) ==
  /\ th[p].pc = "create_node"
  /\ \E e \in CreateFaults :
       th' = [th EXCEPT ![p] = [Done(p, e) EXCEPT !.exc = e]]
  /\ UNCHANGED <<zk, now, hist, pre, lone, coord, groomLock>>

\* --------------------------------------------------------- is_blacklisted
\* handle.exists(blacklist_root), through run_with_timeout.
is_blacklisted_exists(p) ==
  /\ th[p].pc = "bl_exists"
  /\ th' = [th EXCEPT ![p].pc = IF blacklistRoot THEN "bl_children"
                                ELSE "bl_create"]
  /\ UNCHANGED <<zk, now, hist, pre, lone, coord, groomLock>>

\* handle.create(blacklist_root, ..., makepath=True), called on the handle
\* itself: a NodeExistsError reaches the caller of the method.
is_blacklisted_create(p) ==
  /\ th[p].pc = "bl_create"
  /\ IF blacklistRoot
     THEN /\ th' = [th EXCEPT ![p] = Done(p, "NodeExistsError")]
          /\ UNCHANGED <<blacklistRoot, appRoot>>
     ELSE /\ blacklistRoot' = TRUE
          /\ appRoot' = TRUE
          /\ th' = [th EXCEPT ![p].pc = "bl_children"]
  /\ UNCHANGED <<txSeq, txNode, xgNode, lockpath, ukeys, ukeySeq, lockRoot,
                 blacklist, validRoot, validlist, gclock, gclast, now,
                 hist, pre, lone, coord, groomLock>>

\* What the caller of is_blacklisted does with the answer b before its next
\* request: is_in_transaction and check_transaction raise on a blacklisted
\* transaction, the except branch of release_lock raises or returns True.
AfterBlacklisted(p, b) ==
  IF th[p].ret = "rl_except"
  THEN Done(p, IF b THEN "ZKTransactionException:unable to release"
                ELSE "ok")
  ELSE IF th[p].ret = "gvt"
  THEN IF b THEN [th[p] EXCEPT !.pc = "gvt_get", !.ret = "none"]
       ELSE [Done(p, "ok") EXCEPT !.vid = th[p].tgt]
  ELSE IF b
  THEN Done(p, "ZKTransactionException:timed out")
  ELSE [th[p] EXCEPT !.pc = th[p].ret, !.ret = "none"]

\* A membership test that finds no transaction in the blacklist.
NeverInBlacklist(t) == FALSE

\* str(txid) in blacklist
InBlacklist(t) == t \in blacklist

\* get_children(blacklist_root) and str(txid) in blacklist.
is_blacklisted_children(p) ==
  /\ th[p].pc = "bl_children"
  /\ th' = [th EXCEPT ![p] = AfterBlacklisted(p, InBlacklist(th[p].tx))]
  /\ UNCHANGED <<zk, now, hist, pre, lone, coord, groomLock>>

\* ----------------------------------------------------------- acquire_lock
acquire_lock(p, t, k) ==
  /\ th[p].pc = "idle"
  /\ th' = [th EXCEPT ![p] = [IdleTh EXCEPT !.pc = "bl_exists",
                                !.op = "acquire_lock", !.tx = t, !.key = k,
                                !.ret = "iit_exists"]]
  /\ pre' = IF lone THEN zk ELSE pre
  /\ UNCHANGED <<zk, now, hist, lone, coord, groomLock>>

\* is_in_transaction: handle.exists(tx_lock_path).
is_in_transaction_exists(p) ==
  /\ th[p].pc = "iit_exists"
  /\ th' = [th EXCEPT ![p] =
              IF lockpath[th[p].tx] # <<>>
              THEN [th[p] EXCEPT !.pc = "al_get"]
              ELSE [th[p] EXCEPT !.pc = "aal_create", !.create = TRUE]]
  /\ UNCHANGED <<zk, now, hist, pre, lone, coord, groomLock>>

\* acquire_lock: handle.get(transaction_lock_path) and the test
\* lockrootpath in lock_list.
acquire_lock_get(p) ==
  /\ th[p].pc = "al_get"
  /\ th' = [th EXCEPT ![p] =
              IF lockpath[th[p].tx] = <<>>
              THEN Done(p, "NoNodeError")
              ELSE IF AlreadyHasLock(th[p].key, lockpath[th[p].tx])
              THEN Done(p, "ok")
              ELSE [th[p] EXCEPT !.pc = "al_is_xg"]]
  /\ UNCHANGED <<zk, now, hist, pre, lone, coord, groomLock>>

\* acquire_lock: is_xg(app_id, txid), that is handle.exists(xg_path).
acquire_lock_is_xg(p) ==
  /\ th[p].pc = "al_is_xg"
  /\ th' = [th EXCEPT ![p] =
              IF IsXg(th[p].tx)
              THEN [th[p] EXCEPT !.pc = "aal_create", !.create = FALSE]
              ELSE Done(p, "ZKTransactionException:different root entity")]
  /\ UNCHANGED <<zk, now, hist, pre, lone, coord, groomLock>>

\* acquire_additional_lock: handle.create(lockrootpath, txpath, makepath=True).
\* On NodeExistsError the diagnostic get of the owner changes nothing and the
\* method raises.
acquire_additional_lock_create(p) ==
  /\ th[p].pc = "aal_create"
  /\ IF LockRootFree(th[p].key)
     THEN /\ lockRoot' = [lockRoot EXCEPT ![th[p].key] = th[p].tx]
          /\ appRoot' = TRUE
          /\ th' = [th EXCEPT ![p].pc = IF th[p].create THEN "aal_create_list"
                                        ELSE "aal_get_list"]
     ELSE /\ th' = [th EXCEPT ![p] =
                      Done(p, "ZKTransactionException:already held")]
          /\ UNCHANGED <<lockRoot, appRoot>>
  /\ UNCHANGED <<txSeq, txNode, xgNode, lockpath, ukeys, ukeySeq,
                 blacklistRoot, blacklist, validRoot, validlist, gclock,
                 gclast, now, hist, pre, lone, coord, groomLock>>

\* create=True: handle.create_async(transaction_lock_path, lockpath) without
\* makepath; it fails unseen when the transaction node is missing or the lock
\* list exists.
acquire_additional_lock_create_list(p) ==
  /\ th[p].pc = "aal_create_list"
  /\ lockpath' = IF TxExists(th[p].tx) /\ lockpath[th[p].tx] = <<>>
                 THEN [lockpath EXCEPT ![th[p].tx] = <<th[p].key>>]
                 ELSE lockpath
  /\ th' = [th EXCEPT ![p] = Done(p, "ok")]
  /\ UNCHANGED <<appRoot, txSeq, txNode, xgNode, ukeys, ukeySeq, lockRoot,
                 blacklistRoot, blacklist, validRoot, validlist, gclock,
                 gclast, now, hist, pre, lone, coord, groomLock>>

\* create=False: handle.get(transaction_lock_path), the cap test and
\* lock_list.append(lockpath).
acquire_additional_lock_get_list(p) ==
  /\ th[p].pc = "aal_get_list"
  /\ th' = [th EXCEPT ![p] =
              IF lockpath[th[p].tx] = <<>>
              THEN Done(p, "NoNodeError")
              ELSE IF GroupCapReached(lockpath[th[p].tx])
              THEN Done(p, "ZKTransactionException:too many groups")
              ELSE [th[p] EXCEPT !.pc = "aal_set_list",
                      !.locks = Append(lockpath[th[p].tx], th[p].key)]]
  /\ UNCHANGED <<zk, now, hist, pre, lone, coord, groomLock>>

\* create=False: handle.set_async(transaction_lock_path, lock_list_str); it
\* fails unseen when the lock list is gone.
acquire_additional_lock_set_list(p) ==
  /\ th[p].pc = "aal_set_list"
  /\ lockpath' = IF lockpath[th[p].tx] # <<>>
                 THEN [lockpath EXCEPT ![th[p].tx] = th[p].locks]
                 ELSE lockpath
  /\ th' = [th EXCEPT ![p] = Done(p, "ok")]
  /\ UNCHANGED <<appRoot, txSeq, txNode, xgNode, ukeys, ukeySeq, lockRoot,
                 blacklistRoot, blacklist, validRoot, validlist, gclock,
                 gclast, now, hist, pre, lone, coord, groomLock>>

\* ----------------------------------------------------------- release_lock
\* A delete that leaves the lock root in place.
KeepLockRoot(k) == lockRoot

\* delete_async of one lock-root path: the node goes, whatever its value.
DeleteLockRoot(k) == [lockRoot EXCEPT ![k] = NoTx]

\* delete_async of child c of transaction node t; a missing child is an
\* error nobody reads.
DeleteChild(t, c) ==
  /\ xgNode' = IF c.name = "xg" THEN [xgNode EXCEPT ![t] = FALSE] ELSE xgNode
  /\ lockpath' = IF c.name = "lockpath" THEN [lockpath EXCEPT ![t] = <<>>]
                 ELSE lockpath
  /\ ukeys' = IF c.name = "ukey"
              THEN [ukeys EXCEPT ![t] = {u \in @ : u.n # c.n}]
              ELSE ukeys

\* delete_async(txpath): refused while the node has children.
DeleteTxNode(t) ==
  /\ txNode' = IF CanDeleteTxNode(t) THEN [txNode EXCEPT ![t] = NoNode]
               ELSE txNode
  /\ ukeySeq' = IF CanDeleteTxNode(t) THEN [ukeySeq EXCEPT ![t] = 0]
                ELSE ukeySeq

release_lock(p, t) ==
  /\ th[p].pc = "idle"
  /\ th' = [th EXCEPT ![p] = [IdleTh EXCEPT !.pc = "bl_exists",
                                !.op = "release_lock", !.tx = t,
                                !.ret = "ct_exists"]]
  /\ pre' = IF lone THEN zk ELSE pre
  /\ UNCHANGED <<zk, now, hist, lone, coord, groomLock>>

\* check_transaction: handle.exists(txpath).
check_transaction_exists(p) ==
  /\ th[p].pc = "ct_exists"
  /\ th' = [th EXCEPT ![p] =
              IF TxExists(th[p].tx)
              THEN [th[p] EXCEPT !.pc = "rl_get"]
              ELSE Done(p, "ZKTransactionException:not valid")]
  /\ UNCHANGED <<zk, now, hist, pre, lone, coord, groomLock>>

\* The except branch of release_lock: is_blacklisted decides.
ReleaseExcept(p) ==
  [th[p] EXCEPT !.pc = "bl_exists", !.ret = "rl_except", !.locks = <<>>]

\* release_lock that goes to the deletion of the lock list without deleting
\* the lock roots it names.
release_lock_get_keeps_roots(p) ==
  /\ th[p].pc = "rl_get"
  /\ th' = [th EXCEPT ![p] =
              IF lockpath[th[p].tx] = <<>>
              THEN ReleaseExcept(p)
              ELSE [th[p] EXCEPT !.pc = "rl_delete_list"]]
  /\ UNCHANGED <<zk, now, hist, pre, lone, coord, groomLock>>

\* handle.get(transaction_lock_path) and the split.
release_lock_get(p) ==
  /\ th[p].pc = "rl_get"
  /\ th' = [th EXCEPT ![p] =
              IF lockpath[th[p].tx] = <<>>
              THEN ReleaseExcept(p)
              ELSE [th[p] EXCEPT !.pc = "rl_delete_lock",
                                 !.locks = lockpath[th[p].tx]]]
  /\ UNCHANGED <<zk, now, hist, pre, lone, coord, groomLock>>

\* One pass of "for lock_path in lock_list: delete_async(lock_path)".
release_lock_delete_lock(p) ==
  /\ th[p].pc = "rl_delete_lock"
  /\ lockRoot' = DeleteLockRoot(Head(th[p].locks))
  /\ th' = [th EXCEPT ![p].locks = Tail(@),
                      ![p].pc = IF Tail(th[p].locks) = <<>>
                                THEN "rl_delete_list" ELSE "rl_delete_lock"]
  /\ UNCHANGED <<appRoot, txSeq, txNode, xgNode, lockpath, ukeys, ukeySeq,
                 blacklistRoot, blacklist, validRoot, validlist, gclock,
                 gclast, now, hist, pre, lone, coord, groomLock>>

\* handle.delete(transaction_lock_path); NoNodeError enters the except branch.
release_lock_delete_list(p) ==
  /\ th[p].pc = "rl_delete_list"
  /\ IF lockpath[th[p].tx] = <<>>
     THEN /\ th' = [th EXCEPT ![p] = ReleaseExcept(p)]
          /\ UNCHANGED lockpath
     ELSE /\ lockpath' = [lockpath EXCEPT ![th[p].tx] = <<>>]
          /\ th' = [th EXCEPT ![p].pc = "rl_is_xg"]
  /\ UNCHANGED <<appRoot, txSeq, txNode, xgNode, ukeys, ukeySeq, lockRoot,
                 blacklistRoot, blacklist, validRoot, validlist, gclock,
                 gclast, now, hist, pre, lone, coord, groomLock>>

\* is_xg(app_id, txid).
release_lock_is_xg(p) ==
  /\ th[p].pc = "rl_is_xg"
  /\ th' = [th EXCEPT ![p].pc = IF IsXg(th[p].tx) THEN "rl_delete_xg"
                                ELSE "rl_get_children"]
  /\ UNCHANGED <<zk, now, hist, pre, lone, coord, groomLock>>

\* delete_async(xg_path).
release_lock_delete_xg(p) ==
  /\ th[p].pc = "rl_delete_xg"
  /\ DeleteChild(th[p].tx, XgChild)
  /\ th' = [th EXCEPT ![p].pc = "rl_get_children"]
  /\ UNCHANGED <<appRoot, txSeq, txNode, ukeySeq, lockRoot, blacklistRoot,
                 blacklist, validRoot, validlist, gclock, gclast, now,
                 hist, pre, lone, coord, groomLock>>

\* get_children(txpath); a NoNodeError is not caught.
release_lock_get_children(p) ==
  /\ th[p].pc = "rl_get_children"
  /\ th' = [th EXCEPT ![p] =
              IF ~TxExists(th[p].tx)
              THEN Done(p, "NoNodeError")
              ELSE [th[p] EXCEPT !.kids = Children(th[p].tx),
                      !.pc = IF Children(th[p].tx) = {} THEN "rl_delete_tx"
                             ELSE "rl_delete_child"]]
  /\ UNCHANGED <<zk, now, hist, pre, lone, coord, groomLock>>

\* One pass of the loop that deletes the children, in the order
\* get_children happened to list them.
release_lock_delete_child(p) ==
  /\ th[p].pc = "rl_delete_child"
  /\ \E c \in th[p].kids :
       /\ DeleteChild(th[p].tx, c)
       /\ th' = [th EXCEPT ![p].kids = @ \ {c},
                           ![p].pc = IF th[p].kids = {c} THEN "rl_delete_tx"
                                     ELSE "rl_delete_child"]
  /\ UNCHANGED <<appRoot, txSeq, txNode, ukeySeq, lockRoot, blacklistRoot,
                 blacklist, validRoot, validlist, gclock, gclast, now,
                 hist, pre, lone, coord, groomLock>>

\* delete_async(txpath) and return True.
release_lock_delete_tx(p) ==
  /\ th[p].pc = "rl_delete_tx"
  /\ DeleteTxNode(th[p].tx)
  /\ th' = [th EXCEPT ![p] = Done(p, "ok")]
  /\ UNCHANGED <<appRoot, txSeq, xgNode, lockpath, ukeys, lockRoot,
                 blacklistRoot, blacklist, validRoot, validlist, gclock,
                 gclast, now, hist, pre, lone, coord, groomLock>>

\* ---------------------------------------------- notify_failed_transaction
\* The garbage collector goes on with the next transaction of its list.
GcContinue(r) ==
  [r EXCEPT !.pc = IF r.txs = {} THEN "gc_update" ELSE "gc_get_time",
            !.tx = 0, !.key = 0, !.tgt = 0, !.locks = <<>>, !.kids = {}]

\* notify_failed_transaction raising to the caller of the API.
NotifyRaises(p) ==
  IF th[p].ret = "gc" THEN GcContinue(th[p])
  ELSE [Done(p, "ZKTransactionException") EXCEPT !.key = 0, !.tgt = 0]

\* notify_failed_transaction returns True: to the caller of the API, or to
\* execute_garbage_collection.
NotifyReturn(p) ==
  IF th[p].ret = "gc" THEN GcContinue(th[p])
  ELSE [Done(p, "ok") EXCEPT !.key = 0, !.tgt = 0]

notify_failed_transaction(p, t) ==
  /\ th[p].pc = "idle"
  /\ th' = [th EXCEPT ![p] = [IdleTh EXCEPT !.pc = "nf_get",
                                !.op = "notify_failed_transaction", !.tx = t]]
  /\ pre' = IF lone THEN zk ELSE pre
  /\ UNCHANGED <<zk, now, hist, lone, coord, groomLock>>

\* handle.get(txpath/lockpath): NoNodeError leaves lock_list empty, and the
\* "if lock_list" block and the lock loop are skipped.
notify_failed_transaction_get(p) ==
  /\ th[p].pc = "nf_get"
  /\ th' = [th EXCEPT ![p] =
              IF lockpath[th[p].tx] = <<>>
              THEN [th[p] EXCEPT !.pc = "nf_is_xg"]
              ELSE [th[p] EXCEPT !.pc = "nf_blacklist_exists",
                                 !.locks = lockpath[th[p].tx]]]
  /\ UNCHANGED <<zk, now, hist, pre, lone, coord, groomLock>>

\* handle.exists(blacklist_root).
notify_failed_transaction_blacklist_exists(p) ==
  /\ th[p].pc = "nf_blacklist_exists"
  /\ th' = [th EXCEPT ![p].pc = IF blacklistRoot THEN "nf_blacklist_add"
                                ELSE "nf_blacklist_create"]
  /\ UNCHANGED <<zk, now, hist, pre, lone, coord, groomLock>>

\* The next request of the blacklist block: handle.create(blacklist_root,
\* makepath=True) when exists() found no root (NodeExistsError is a
\* ZookeeperError, logged by the except clause before return True), then
\* handle.create_async(blacklist_root/<txid>, now).
notify_failed_transaction_blacklist_add(p) ==
  /\ th[p].pc \in {"nf_blacklist_create", "nf_blacklist_add"}
  /\ IF th[p].pc = "nf_blacklist_create"
     THEN IF blacklistRoot
          THEN /\ th' = [th EXCEPT ![p] = NotifyReturn(p)]
               /\ UNCHANGED <<blacklistRoot, appRoot, blacklist>>
          ELSE /\ blacklistRoot' = TRUE
               /\ appRoot' = TRUE
               /\ th' = [th EXCEPT ![p].pc = "nf_blacklist_add"]
               /\ UNCHANGED blacklist
     ELSE /\ blacklist' = blacklist \cup {th[p].tx}
          /\ th' = [th EXCEPT ![p].pc = "nf_get_ukeys"]
          /\ UNCHANGED <<blacklistRoot, appRoot>>
  /\ UNCHANGED <<txSeq, txNode, xgNode, lockpath, ukeys, ukeySeq, lockRoot,
                 validRoot, validlist, gclock, gclast, now, hist, pre, lone, coord, groomLock>>

\* handle.get_children(txpath) of the copy loop; the children that match
\* ^ukey are copied.  NoNodeError ends the method in the except clause.
notify_failed_transaction_get_ukeys(p) ==
  /\ th[p].pc = "nf_get_ukeys"
  /\ th' = [th EXCEPT ![p] =
              IF ~TxExists(th[p].tx)
              THEN NotifyReturn(p)
              ELSE LET uk == {c \in Children(th[p].tx) : c.name = "ukey"}
                   IN [th[p] EXCEPT !.kids = uk,
                         !.pc = IF uk = {} THEN "nf_delete_lock"
                                ELSE "nf_get_ukey"]]
  /\ UNCHANGED <<zk, now, hist, pre, lone, coord, groomLock>>

\* handle.get(txpath/child): key and vid of one updated-key entry.
notify_failed_transaction_get_ukey(p) ==
  /\ th[p].pc = "nf_get_ukey"
  /\ \E c \in th[p].kids :
       th' = [th EXCEPT ![p] =
                IF c \notin Children(th[p].tx)
                THEN NotifyReturn(p)
                ELSE LET valuelist == split(c.val)
                     IN [th[p] EXCEPT
                           !.kids = @ \ {c},
                           !.key = KeyNamed(unquote_plus(valuelist[1])),
                           !.tgt = long(valuelist[2]),
                           !.pc = "nf_valid_exists"]]
  /\ UNCHANGED <<zk, now, hist, pre, lone, coord, groomLock>>

\* handle.exists(vtxroot).
notify_failed_transaction_valid_exists(p) ==
  /\ th[p].pc = "nf_valid_exists"
  /\ th' = [th EXCEPT ![p].pc = IF validRoot THEN "nf_valid_add"
                                ELSE "nf_valid_create"]
  /\ UNCHANGED <<zk, now, hist, pre, lone, coord, groomLock>>

\* handle.create(vtxroot, makepath=True).
notify_failed_transaction_valid_create(p) ==
  /\ th[p].pc = "nf_valid_create"
  /\ IF validRoot
     THEN /\ th' = [th EXCEPT ![p] = NotifyReturn(p)]
          /\ UNCHANGED <<validRoot, appRoot>>
     ELSE /\ validRoot' = TRUE
          /\ appRoot' = TRUE
          /\ th' = [th EXCEPT ![p].pc = "nf_valid_add"]
  /\ UNCHANGED <<txSeq, txNode, xgNode, lockpath, ukeys, ukeySeq, lockRoot,
                 blacklistRoot, blacklist, validlist, gclock, gclast, now,
                 hist, pre, lone, coord, groomLock>>

\* handle.create_async(vtxpath, vid): an existing anchor keeps its value.
notify_failed_transaction_valid_add(p) ==
  /\ th[p].pc = "nf_valid_add"
  /\ validlist' = IF /\ th[p].key \in DOMAIN validlist
                     /\ validlist[th[p].key] = NoVal
                  THEN [validlist EXCEPT ![th[p].key] = th[p].tgt]
                  ELSE validlist
  /\ th' = [th EXCEPT ![p].pc = IF th[p].kids = {} THEN "nf_delete_lock"
                                ELSE "nf_get_ukey"]
  /\ UNCHANGED <<appRoot, txSeq, txNode, xgNode, lockpath, ukeys, ukeySeq,
                 lockRoot, blacklistRoot, blacklist, validRoot, gclock,
                 gclast, now, hist, pre, lone, coord, groomLock>>

\* One pass of "for lock in lock_list: delete_async(lock)".
notify_failed_transaction_delete_lock(p) ==
  /\ th[p].pc = "nf_delete_lock"
  /\ lockRoot' = DeleteLockRoot(Head(th[p].locks))
  /\ th' = [th EXCEPT ![p].locks = Tail(@),
                      ![p].pc = IF Tail(th[p].locks) = <<>>
                                THEN "nf_is_xg" ELSE "nf_delete_lock"]
  /\ UNCHANGED <<appRoot, txSeq, txNode, xgNode, lockpath, ukeys, ukeySeq,
                 blacklistRoot, blacklist, validRoot, validlist, gclock,
                 gclast, now, hist, pre, lone, coord, groomLock>>

\* is_xg(app_id, txid).
notify_failed_transaction_is_xg(p) ==
  /\ th[p].pc = "nf_is_xg"
  /\ th' = [th EXCEPT ![p].pc = IF IsXg(th[p].tx) THEN "nf_delete_xg"
                                ELSE "nf_get_children"]
  /\ UNCHANGED <<zk, now, hist, pre, lone, coord, groomLock>>

\* delete_async(xg_path).
notify_failed_transaction_delete_xg(p) ==
  /\ th[p].pc = "nf_delete_xg"
  /\ DeleteChild(th[p].tx, XgChild)
  /\ th' = [th EXCEPT ![p].pc = "nf_get_children"]
  /\ UNCHANGED <<appRoot, txSeq, txNode, ukeySeq, lockRoot, blacklistRoot,
                 blacklist, validRoot, validlist, gclock, gclast, now,
                 hist, pre, lone, coord, groomLock>>

\* handle.get_children(txpath) of the removal loop.
notify_failed_transaction_get_children(p) ==
  /\ th[p].pc = "nf_get_children"
  /\ th' = [th EXCEPT ![p] =
              IF ~TxExists(th[p].tx) \/ Children(th[p].tx) = {}
              THEN NotifyReturn(p)
              ELSE [th[p] EXCEPT !.kids = Children(th[p].tx),
                                 !.pc = "nf_delete_item"]]
  /\ UNCHANGED <<zk, now, hist, pre, lone, coord, groomLock>>

\* delete_async(txpath/item), the first request of one pass of the loop.
notify_failed_transaction_delete_item(p) ==
  /\ th[p].pc = "nf_delete_item"
  /\ \E c \in th[p].kids :
       /\ DeleteChild(th[p].tx, c)
       /\ th' = [th EXCEPT ![p].kids = @ \ {c}, ![p].pc = "nf_delete_tx"]
  /\ UNCHANGED <<appRoot, txSeq, txNode, ukeySeq, lockRoot, blacklistRoot,
                 blacklist, validRoot, validlist, gclock, gclast, now,
                 hist, pre, lone, coord, groomLock>>

\* delete_async(txpath), the second request of the same pass: it is inside
\* the loop and is refused while children remain.
notify_failed_transaction_delete_tx(p) ==
  /\ th[p].pc = "nf_delete_tx"
  /\ DeleteTxNode(th[p].tx)
  /\ th' = [th EXCEPT ![p] = IF th[p].kids = {} THEN NotifyReturn(p)
                             ELSE [th[p] EXCEPT !.pc = "nf_delete_item"]]
  /\ UNCHANGED <<appRoot, txSeq, xgNode, lockpath, ukeys, lockRoot,
                 blacklistRoot, blacklist, validRoot, validlist, gclock,
                 gclast, now, hist, pre, lone, coord, groomLock>>

\* ---------------------------------------------------- register_updated_key
\* The call by a caller that registers at most maxukey keys for one
\* transaction.
register_updated_key_upto(p, cur, target, k, maxukey) ==
  /\ th[p].pc = "idle"
  /\ ukeySeq[cur] < maxukey
  /\ th' = [th EXCEPT ![p] = [IdleTh EXCEPT !.pc = "ruk_exists",
                                !.op = "register_updated_key", !.tx = cur,
                                !.tgt = target, !.key = k]]
  /\ pre' = IF lone THEN zk ELSE pre
  /\ UNCHANGED <<zk, now, hist, lone, coord, groomLock>>

register_updated_key(p, cur, target, k) ==
  register_updated_key_upto(p, cur, target, k, MaxUkey)

\* handle.exists(vtxpath).
register_updated_key_exists(p) ==
  /\ th[p].pc = "ruk_exists"
  /\ th' = [th EXCEPT ![p].pc = IF validlist[th[p].key] # NoVal
                                THEN "ruk_set" ELSE "ruk_tx_exists"]
  /\ UNCHANGED <<zk, now, hist, pre, lone, coord, groomLock>>

\* handle.set_async(vtxpath, str(target_txid)).
register_updated_key_set(p) ==
  /\ th[p].pc = "ruk_set"
  /\ validlist' = IF validlist[th[p].key] # NoVal
                  THEN [validlist EXCEPT ![th[p].key] = long(str(th[p].tgt))]
                  ELSE validlist
  /\ th' = [th EXCEPT ![p] = Done(p, "ok")]
  /\ UNCHANGED <<appRoot, txSeq, txNode, xgNode, lockpath, ukeys, ukeySeq,
                 lockRoot, blacklistRoot, blacklist, validRoot, gclock,
                 gclast, now, hist, pre, lone, coord, groomLock>>

\* handle.exists(txpath).
register_updated_key_tx_exists(p) ==
  /\ th[p].pc = "ruk_tx_exists"
  /\ th' = [th EXCEPT ![p] =
              IF TxExists(th[p].tx)
              THEN [th[p] EXCEPT !.pc = "ruk_create"]
              ELSE Done(p, "ZKTransactionException:not valid")]
  /\ UNCHANGED <<zk, now, hist, pre, lone, coord, groomLock>>

\* handle.create_async(txpath/ukey, value, sequence=True).
register_updated_key_create(p) ==
  /\ th[p].pc = "ruk_create"
  /\ IF TxExists(th[p].tx)
     THEN /\ ukeys' = [ukeys EXCEPT ![th[p].tx] =
                         @ \cup {[n |-> ukeySeq[th[p].tx],
                                  val |-> UkeyValue(th[p].key, th[p].tgt)]}]
          /\ ukeySeq' = [ukeySeq EXCEPT ![th[p].tx] = NextSeq(@)]
     ELSE UNCHANGED <<ukeys, ukeySeq>>
  /\ th' = [th EXCEPT ![p] = Done(p, "ok")]
  /\ UNCHANGED <<appRoot, txSeq, txNode, xgNode, lockpath, lockRoot,
                 blacklistRoot, blacklist, validRoot, validlist, gclock,
                 gclast, now, hist, pre, lone, coord, groomLock>>

\* --------------------------------------------------- get_updated_key_list
get_updated_key_list(p, t) ==
  /\ th[p].pc = "idle"
  /\ th' = [th EXCEPT ![p] = [IdleTh EXCEPT !.pc = "gukl_children",
                                !.op = "get_updated_key_list", !.tx = t]]
  /\ pre' = IF lone THEN zk ELSE pre
  /\ UNCHANGED <<zk, now, hist, lone, coord, groomLock>>

\* handle.get_children(txpath); the children that match ^ukey are read.
\* NoNodeError becomes the "not valid" ZKTransactionException.
get_updated_key_list_children(p) ==
  /\ th[p].pc = "gukl_children"
  /\ th' = [th EXCEPT ![p] =
              IF ~TxExists(th[p].tx)
              THEN Done(p, "ZKTransactionException:not valid")
              ELSE LET uk == {c \in Children(th[p].tx) : c.name = "ukey"}
                   IN IF uk = {} THEN Done(p, "ok")
                      ELSE [th[p] EXCEPT !.kids = uk, !.pc = "gukl_get"]]
  /\ UNCHANGED <<zk, now, hist, pre, lone, coord, groomLock>>

\* One pass of the loop, in the order get_children listed the children:
\* handle.get(txpath/item)[0], split, unquote_plus and keylist.append(key).
get_updated_key_list_get(p) ==
  /\ th[p].pc = "gukl_get"
  /\ \E c \in th[p].kids :
       th' = [th EXCEPT ![p] =
                IF c \notin Children(th[p].tx)
                THEN Done(p, "ZKTransactionException:not valid")
                ELSE LET key == unquote_plus(split(c.val)[1])
                         keylist == Append(th[p].keylist, key)
                     IN IF th[p].kids = {c}
                        THEN [Done(p, "ok") EXCEPT !.keylist = keylist]
                        ELSE [th[p] EXCEPT !.kids = @ \ {c},
                                           !.keylist = keylist]]
  /\ UNCHANGED <<zk, now, hist, pre, lone, coord, groomLock>>

\* ----------------------------------------------- get_valid_transaction_id
\* The call begins with is_blacklisted(app_id, target_txid); a target that is
\* not blacklisted is returned as it is.
get_valid_transaction_id(p, target, k) ==
  /\ th[p].pc = "idle"
  /\ th' = [th EXCEPT ![p] = [IdleTh EXCEPT !.pc = "bl_exists",
                                !.op = "get_valid_transaction_id",
                                !.tx = target, !.tgt = target, !.key = k,
                                !.ret = "gvt"]]
  /\ pre' = IF lone THEN zk ELSE pre
  /\ UNCHANGED <<zk, now, hist, lone, coord, groomLock>>

\* handle.get(vtxpath)[0] and long(vid); NoNodeError: long(0).  The anchors
\* of the model hold the number their string stands for.
get_valid_transaction_id_get(p) ==
  /\ th[p].pc = "gvt_get"
  /\ th' = [th EXCEPT ![p] =
              [Done(p, "ok") EXCEPT
                 !.vid = IF validlist[th[p].key] # NoVal
                         THEN validlist[th[p].key] ELSE 0]]
  /\ UNCHANGED <<zk, now, hist, pre, lone, coord, groomLock>>

\* ------------------------------------------------------- run_with_timeout
\* What one invocation of function(*args) can do before the alarm: return, or
\* raise one of the exceptions run_with_timeout tells apart.  "ZookeeperError"
\* is any other kazoo error, "Exception" any other exception.
Reraised ==
  {"NoNodeError", "NodeExistsError", "DataInconsistency", "BadArgumentsError",
   "SystemZookeeperError"}
Reconnecting ==
  {"ConnectionLoss", "ConnectionClosedError", "OperationTimeoutError",
   "SessionExpiredError"}
Unforeseen == {"ZookeeperError", "Exception"}
Outcomes == {"returns"} \cup Reraised \cup Reconnecting \cup Unforeseen

\* run_with_timeout returns or raises r to its caller.
ExecDone(p, r) ==
  [th[p] EXCEPT !.pc = "done", !.res = r]

\* The recursive call run_with_timeout(timeout_time, num_retries - 1, ...).
ExecRetry(p) ==
  [th[p] EXCEPT !.pc = "rwt_enter", !.retries = @ - 1]

\* A handler of ZKTimeoutException that retries the call.
AlarmRetried(p) == ExecRetry(p)

\* except ZKTimeoutException: raise ZKTransactionException("... timed out").
AfterAlarm(p) == ExecDone(p, "ZKTransactionException:timed out")

\* The call run_with_timeout(DEFAULT_ZK_TIMEOUT, num_retries, function,
\* *args) by a method of the coordinator.
run_with_timeout(p, num_retries) ==
  /\ th[p].pc = "idle"
  /\ th' = [th EXCEPT ![p] = [IdleTh EXCEPT !.pc = "rwt_enter",
                                !.op = "run_with_timeout",
                                !.retries = num_retries,
                                !.budget = num_retries]]
  /\ UNCHANGED <<zk, now, hist, pre, lone, coord, groomLock>>

\* The test of num_retries, signal.alarm(timeout_time) and the start of
\* function(*args); without arguments the function raises a TypeError.
run_with_timeout_enter(p) ==
  /\ th[p].pc = "rwt_enter"
  /\ th' = [th EXCEPT ![p] =
              IF th[p].retries <= 0
              THEN ExecDone(p, "ZKTransactionException:no more retries")
              ELSE [th[p] EXCEPT !.pc = "rwt_call", !.elapsed = 0,
                                 !.calls = @ + 1]]
  /\ UNCHANGED <<zk, now, hist, pre, lone, coord, groomLock>>

\* A second passes while the function runs or the connection is set up
\* again; the alarm is armed in both.
run_with_timeout_second(p) ==
  /\ th[p].pc \in {"rwt_call", "rwt_reconnect"}
  /\ th[p].elapsed < DEFAULT_ZK_TIMEOUT
  /\ th' = [th EXCEPT ![p].elapsed = @ + 1]
  /\ UNCHANGED <<zk, now, hist, pre, lone, coord, groomLock>>

\* function(*args) returns, or raises an exception, before the deadline.
run_with_timeout_function(p) ==
  /\ th[p].pc = "rwt_call"
  /\ th[p].elapsed < DEFAULT_ZK_TIMEOUT
  /\ \E o \in (IF th[p].args THEN Outcomes ELSE {"Exception"}) :
       th' = [th EXCEPT ![p] =
                IF o = "returns" THEN ExecDone(p, "ok")
                ELSE [th[p] EXCEPT !.pc = "rwt_except", !.exc = o]]
  /\ UNCHANGED <<zk, now, hist, pre, lone, coord, groomLock>>

\* An except clause that retries the call instead of raising.
PassThroughRetried(p) == ExecRetry(p)

\* signal.alarm(0) and "raise no_node" and the like.
PassThrough(p) == ExecDone(p, th[p].exc)

\* An except clause that retries the call without a new connection.
NeverReconnect(p) == ExecRetry(p)

\* The except clauses that call reset_timer_and_connection(): it begins with
\* reestablish_connection(), the alarm still armed.
Reconnect(p) == [th[p] EXCEPT !.pc = "rwt_reconnect", !.conns = @ + 1]

\* The session handles of one call of run_with_timeout, numbered in the
\* order of their creation: 0 is self.handle as the call site found it, and
\* each reestablish_connection() stops self.handle and puts a new KazooClient
\* in its place.
CurrentHandle(r) == r.conns

\* The handle whose bound method the call site passed as function
\* (self.handle.create and the like): the recursive calls pass function on
\* as they got it.
FunctionHandle(r) == 0

\* The except clause of the exception the function raised, up to its first
\* call.
run_with_timeout_except(p) ==
  /\ th[p].pc = "rwt_except"
  /\ th' = [th EXCEPT ![p] =
              IF th[p].exc \in Reraised THEN PassThrough(p)
              ELSE IF th[p].exc \in Reconnecting THEN Reconnect(p)
              ELSE ExecRetry(p)]
  /\ UNCHANGED <<zk, now, hist, pre, lone, coord, groomLock>>

\* The deadline elapses while function(*args) runs: SIGALRM, the handler
\* raises ZKTimeoutException inside the function.
run_with_timeout_alarm(p) ==
  /\ th[p].pc = "rwt_call"
  /\ th[p].elapsed = DEFAULT_ZK_TIMEOUT
  /\ th' = [th EXCEPT ![p] = AfterAlarm(p)]
  /\ UNCHANGED <<zk, now, hist, pre, lone, coord, groomLock>>

\* A retry that always passes *args on.
AlwaysPassedArgs(r) == r.args

\* The arguments of the recursive call: the except clause of
\* OperationTimeoutError passes function alone, the others function, *args.
PassedArgs(r) == r.args /\ r.exc # "OperationTimeoutError"

\* reset_timer_and_connection: reestablish_connection() has come back,
\* signal.alarm(0), and the recursive call.
run_with_timeout_reconnect(p) ==
  /\ th[p].pc = "rwt_reconnect"
  /\ th[p].elapsed < DEFAULT_ZK_TIMEOUT
  /\ th' = [th EXCEPT ![p] =
              [ExecRetry(p) EXCEPT !.args = PassedArgs(th[p])]]
  /\ UNCHANGED <<zk, now, hist, pre, lone, coord, groomLock>>

\* The deadline elapses inside reestablish_connection(), in an except
\* clause: the ZKTimeoutException of the handler reaches the caller.
run_with_timeout_reconnect_alarm(p) ==
  /\ th[p].pc = "rwt_reconnect"
  /\ th[p].elapsed = DEFAULT_ZK_TIMEOUT
  /\ th' = [th EXCEPT ![p] = ExecDone(p, "ZKTimeoutException")]
  /\ UNCHANGED <<zk, now, hist, pre, lone, coord, groomLock>>

\* -------------------------------------------------------- garbage collector
\* txtime + TX_TIMEOUT < time.time()
TimedOut(txtime, t) == txtime + TX_TIMEOUT < t

\* last_time + GC_INTERVAL < time.time(); a missing gclast_time reads as 0.
GcDue(last, t) == (IF last = NoVal THEN 0 ELSE last) + GC_INTERVAL < t

\* reestablish_connection() in the worker: the session that created gclock
\* ends, and the ephemeral node goes with it.
GcSessionDropped == FALSE

\* The other applications under APPS_PATH, of which the model keeps no
\* name-space: app_list names them after the application.
OtherApps == {2}

\* gc_runner: a pass of the loop "while self.gc_running";
\* handle.get_children(APPS_PATH) lists the application and the applications
\* others, and the for loop begins with the application.
gc_runner_pass(p, others) ==
  /\ th[p].pc = "idle"
  /\ coord.gc_running
  /\ appRoot
  /\ th' = [th EXCEPT ![p] = [IdleTh EXCEPT !.pc = "gc_last_time",
                                !.op = "gc_runner", !.ret = "gc",
                                !.apps = others]]
  /\ pre' = IF lone THEN zk ELSE pre
  /\ UNCHANGED <<zk, now, hist, lone, coord, groomLock>>

\* A pass with the one application under APPS_PATH.
gc_runner(p) == gc_runner_pass(p, {})

\* handle.get_children(APPS_PATH) raises a ZookeeperError other than
\* NoNodeError and OperationTimeoutError: the except clause of gc_runner logs
\* it, calls reestablish_connection() and returns, so the worker thread ends
\* and gc_running keeps its value.
gc_runner_list_fails(p) ==
  /\ th[p].pc = "idle"
  /\ coord.gc_running
  /\ gclock' = GcSessionDropped
  /\ th' = [th EXCEPT ![p] = [IdleTh EXCEPT !.pc = "gc_exit",
                                !.op = "gc_runner",
                                !.exc = "ZookeeperError"]]
  /\ UNCHANGED <<appRoot, txSeq, txNode, xgNode, lockpath, ukeys, ukeySeq,
                 lockRoot, blacklistRoot, blacklist, validRoot, validlist,
                 gclast, now, hist, pre, lone, coord, groomLock>>

\* try_garbage_collection has returned to the for loop of gc_runner, which
\* goes on with the next application of app_list; after the last one the
\* worker waits on gc_cv for its next pass.  r.exc is the error that the
\* pass has swallowed so far.
AfterApp(r) ==
  IF r.apps = {} THEN [IdleTh EXCEPT !.exc = r.exc]
  ELSE [IdleTh EXCEPT !.pc = "gc_other", !.op = "gc_runner", !.ret = "gc",
                      !.apps = r.apps, !.exc = r.exc]

\* The error of a request leaves gc_runner as well.
GcErrorRaised(r) == [IdleTh EXCEPT !.pc = "gc_exit", !.op = "gc_runner",
                                   !.exc = "ZookeeperError"]

\* except ZookeeperError in try_garbage_collection: log, reconnect, return.
GcErrorReturns(r) == AfterApp([r EXCEPT !.exc = "ZookeeperError"])

\* try_garbage_collection of one of the other applications: it returns,
\* with or without an error of a request that it has swallowed.
try_garbage_collection_other(p) ==
  /\ th[p].pc = "gc_other"
  /\ \E a \in th[p].apps, failed \in BOOLEAN :
       LET r == [th[p] EXCEPT !.apps = @ \ {a}]
       IN th' = [th EXCEPT ![p] = IF failed THEN GcErrorReturns(r)
                                  ELSE AfterApp(r)]
  /\ UNCHANGED <<zk, now, hist, pre, lone, coord, groomLock>>

\* handle.get(gclast_time) raises a ZookeeperError other than NoNodeError.
try_garbage_collection_last_time_fails(p) ==
  /\ th[p].pc = "gc_last_time"
  /\ gclock' = GcSessionDropped
  /\ th' = [th EXCEPT ![p] = GcErrorReturns(th[p])]
  /\ UNCHANGED <<appRoot, txSeq, txNode, xgNode, lockpath, ukeys, ukeySeq,
                 lockRoot, blacklistRoot, blacklist, validRoot, validlist,
                 gclast, now, hist, pre, lone, coord, groomLock>>

\* handle.create(gc_path, ...) raises a ZookeeperError other than
\* NodeExistsError.
try_garbage_collection_lock_fails(p) ==
  /\ th[p].pc = "gc_lock"
  /\ gclock' = GcSessionDropped
  /\ th' = [th EXCEPT ![p] = GcErrorReturns(th[p])]
  /\ UNCHANGED <<appRoot, txSeq, txNode, xgNode, lockpath, ukeys, ukeySeq,
                 lockRoot, blacklistRoot, blacklist, validRoot, validlist,
                 gclast, now, hist, pre, lone, coord, groomLock>>

\* try_garbage_collection: handle.get(gclast_time) and the interval test.
try_garbage_collection_last_time(p) ==
  /\ th[p].pc = "gc_last_time"
  /\ th' = [th EXCEPT ![p] = IF GcDue(gclast, now)
                             THEN [th[p] EXCEPT !.pc = "gc_lock"]
                             ELSE AfterApp(th[p])]
  /\ UNCHANGED <<zk, now, hist, pre, lone, coord, groomLock>>

\* No worker ever finds the gclock node.
GcLockNeverExists == FALSE

\* handle.create(gc_path, ...) raises NodeExistsError.
GcLockExists == gclock

\* handle.create(gc_path, now, ephemeral=True); NodeExistsError: another
\* worker has the lock.
try_garbage_collection_lock(p) ==
  /\ th[p].pc = "gc_lock"
  /\ IF GcLockExists
     THEN /\ th' = [th EXCEPT ![p] = AfterApp(th[p])]
          /\ UNCHANGED gclock
     ELSE /\ gclock' = TRUE
          /\ th' = [th EXCEPT ![p].pc = "gc_tx_list"]
  /\ UNCHANGED <<appRoot, txSeq, txNode, xgNode, lockpath, ukeys, ukeySeq,
                 lockRoot, blacklistRoot, blacklist, validRoot, validlist,
                 gclast, now, hist, pre, lone, coord, groomLock>>

\* execute_garbage_collection: handle.get_children(txrootpath); the children
\* that match ^tx\d are the transaction nodes.
execute_garbage_collection_tx_list(p) ==
  /\ th[p].pc = "gc_tx_list"
  /\ th' = [th EXCEPT ![p] =
              GcContinue([th[p] EXCEPT !.txs = {t \in TxIds : TxExists(t)}])]
  /\ UNCHANGED <<zk, now, hist, pre, lone, coord, groomLock>>

\* One pass of the loop: handle.get(txpath), float(), the timeout test and
\* the call of notify_failed_transaction.  float('') raises ValueError, which
\* only try_garbage_collection catches.
execute_garbage_collection_get_time(p) ==
  /\ th[p].pc = "gc_get_time"
  /\ \E t \in th[p].txs :
       th' = [th EXCEPT ![p] =
                LET r == [th[p] EXCEPT !.txs = @ \ {t}]
                IN IF txNode[t] = NoNode THEN GcContinue(r)
                   ELSE IF txNode[t] = EmptyVal
                   THEN [r EXCEPT !.pc = "gc_unlock", !.txs = {}]
                   ELSE IF TimedOut(txNode[t], now)
                   THEN [r EXCEPT !.pc = "nf_get", !.tx = t]
                   ELSE GcContinue(r)]
  /\ UNCHANGED <<zk, now, hist, pre, lone, coord, groomLock>>

\* handle.get_children(txrootpath) raises a ZookeeperError other than
\* NoNodeError: execute_garbage_collection logs it, reconnects and returns,
\* so try_garbage_collection goes on to update_node.
execute_garbage_collection_tx_list_fails(p) ==
  /\ th[p].pc = "gc_tx_list"
  /\ gclock' = GcSessionDropped
  /\ th' = [th EXCEPT ![p] = [th[p] EXCEPT !.pc = "gc_update",
                                !.exc = "ZookeeperError"]]
  /\ UNCHANGED <<appRoot, txSeq, txNode, xgNode, lockpath, ukeys, ukeySeq,
                 lockRoot, blacklistRoot, blacklist, validRoot, validlist,
                 gclast, now, hist, pre, lone, coord, groomLock>>

\* handle.get(txpath) raises a ZookeeperError other than NoNodeError: the
\* same, with the rest of the transactions left out.
execute_garbage_collection_get_time_fails(p) ==
  /\ th[p].pc = "gc_get_time"
  /\ gclock' = GcSessionDropped
  /\ th' = [th EXCEPT ![p] = [th[p] EXCEPT !.pc = "gc_update", !.txs = {},
                                !.exc = "ZookeeperError"]]
  /\ UNCHANGED <<appRoot, txSeq, txNode, xgNode, lockpath, ukeys, ukeySeq,
                 lockRoot, blacklistRoot, blacklist, validRoot, validlist,
                 gclast, now, hist, pre, lone, coord, groomLock>>

\* update_node(gclast_time, now) after a sweep without exception: set, or
\* create when the node is missing.  The ephemeral gclock stays.
try_garbage_collection_update(p) ==
  /\ th[p].pc = "gc_update"
  /\ gclast' = now
  /\ th' = [th EXCEPT ![p] = AfterApp(th[p])]
  /\ UNCHANGED <<appRoot, txSeq, txNode, xgNode, lockpath, ukeys, ukeySeq,
                 lockRoot, blacklistRoot, blacklist, validRoot, validlist,
                 gclock, now, hist, pre, lone, coord, groomLock>>

\* handle.delete(gc_path) after an exception in the sweep.
try_garbage_collection_unlock(p) ==
  /\ th[p].pc = "gc_unlock"
  /\ gclock' = FALSE
  /\ th' = [th EXCEPT ![p] = AfterApp(th[p])]
  /\ UNCHANGED <<appRoot, txSeq, txNode, xgNode, lockpath, ukeys, ukeySeq,
                 lockRoot, blacklistRoot, blacklist, validRoot, validlist,
                 gclast, now, hist, pre, lone, coord, groomLock>>

\* --------------------------------------------------------------- close
\* gc_runner leaves its loop when gc_running is False, and the thread ends.
gc_runner_exit(p) ==
  /\ th[p].pc = "idle"
  /\ ~coord.gc_running
  /\ th' = [th EXCEPT ![p] = [IdleTh EXCEPT !.pc = "gc_exit",
                                !.op = "gc_runner"]]
  /\ UNCHANGED <<zk, now, hist, pre, lone, coord, groomLock>>

\* start_gc(), the whole of it under gc_cv: with gc_running set it only
\* signals; otherwise it sets gc_running, creates a Thread object for
\* gc_runner, keeps it as self.gcthread and starts it.
start_gc(p) ==
  /\ th[p].pc = "idle"
  /\ IF coord.gc_running
     THEN UNCHANGED <<th, coord>>
     ELSE \E w \in StartedThreads :
            /\ th[w].pc = "unstarted"
            /\ coord' = [coord EXCEPT !.gc_running = TRUE, !.gcthread = w]
            /\ th' = [th EXCEPT ![w] = IdleTh]
  /\ UNCHANGED <<zk, now, hist, pre, lone, groomLock>>

\* stop_gc() called by itself.
stop_gc(p) ==
  /\ th[p].pc = "idle"
  /\ th' = [th EXCEPT ![p] = [IdleTh EXCEPT !.pc = "sg_test",
                                !.op = "stop_gc"]]
  /\ pre' = IF lone THEN zk ELSE pre
  /\ UNCHANGED <<zk, now, hist, lone, coord, groomLock>>

\* stop_gc is over: close() goes on with handle.stop(), a call of stop_gc
\* returns.
AfterStopGc(p) ==
  IF th[p].op = "close" THEN [th[p] EXCEPT !.pc = "close_stop"]
  ELSE Done(p, "ok")

\* close() begins with stop_gc().
close(p) ==
  /\ th[p].pc = "idle"
  /\ th' = [th EXCEPT ![p] = [IdleTh EXCEPT !.pc = "sg_test", !.op = "close"]]
  /\ pre' = IF lone THEN zk ELSE pre
  /\ UNCHANGED <<zk, now, hist, lone, coord, groomLock>>

\* stop_gc: the test "if self.gc_running", made without the lock.
stop_gc_test(p) ==
  /\ th[p].pc = "sg_test"
  /\ th' = [th EXCEPT ![p] = IF coord.gc_running
                             THEN [th[p] EXCEPT !.pc = "sg_signal"]
                             ELSE AfterStopGc(p)]
  /\ UNCHANGED <<zk, now, hist, pre, lone, coord, groomLock>>

\* with self.gc_cv: self.gc_running = False; self.gc_cv.notifyAll()
stop_gc_signal(p) ==
  /\ th[p].pc = "sg_signal"
  /\ coord' = [coord EXCEPT !.gc_running = FALSE]
  /\ th' = [th EXCEPT ![p].pc = "sg_join"]
  /\ UNCHANGED <<zk, now, hist, pre, lone, groomLock>>

\* The worker started by start_gc cannot be joined.
JoinSkipped == TRUE

\* self.gcthread.join() returns: the worker thread has ended.
GcThreadJoined == th[coord.gcthread].pc = "gc_exit"

stop_gc_join(p) ==
  /\ th[p].pc = "sg_join"
  /\ GcThreadJoined
  /\ th' = [th EXCEPT ![p] = AfterStopGc(p)]
  /\ UNCHANGED <<zk, now, hist, pre, lone, coord, groomLock>>

\* self.handle.stop()
close_stop(p) ==
  /\ th[p].pc = "close_stop"
  /\ coord' = [coord EXCEPT !.handle = "stopped"]
  /\ th' = [th EXCEPT ![p] = Done(p, "ok")]
  /\ UNCHANGED <<zk, now, hist, pre, lone, groomLock>>

\* ------------------------------------------------- datastore groomer lock
\* Each caller of the groomer lock is a coordinator of its own, with its own
\* session; groomLock is the session that created the ephemeral node
\* /appscale_datastore_groomer, NoHolder when the node is missing.
\* What the request of a groomer-lock method can do beside answering.
GroomFaults == {"none", "ConnectionLoss"}

\* The lock node seems free whatever is there.
GroomLockAlwaysFree == TRUE

\* handle.create(DS_GROOM_LOCK_PATH, ...) finds no node.
GroomLockFree == groomLock = NoHolder

\* reestablish_connection(): the session ends and its ephemeral node goes.
SessionDropped(p) == IF groomLock = p THEN NoHolder ELSE groomLock

get_datastore_groomer_lock(p) ==
  /\ th[p].pc = "idle"
  /\ th' = [th EXCEPT ![p] = [IdleTh EXCEPT !.pc = "gl_create",
                                !.op = "get_datastore_groomer_lock"]]
  /\ pre' = IF lone THEN zk ELSE pre
  /\ UNCHANGED <<zk, now, hist, lone, coord, groomLock>>

\* handle.create(DS_GROOM_LOCK_PATH, now, ZOO_ACL_OPEN, ephemeral=True) and
\* the except clauses: NodeExistsError returns False, any other error
\* reconnects and returns False.
get_datastore_groomer_lock_create(p) ==
  /\ th[p].pc = "gl_create"
  /\ \E f \in GroomFaults :
       IF f # "none"
       THEN /\ groomLock' = SessionDropped(p)
            /\ th' = [th EXCEPT ![p] = [Done(p, "False") EXCEPT !.exc = f]]
       ELSE IF GroomLockFree
       THEN /\ groomLock' = p
            /\ th' = [th EXCEPT ![p] = Done(p, "ok")]
       ELSE /\ groomLock' = groomLock
            /\ th' = [th EXCEPT ![p] = [Done(p, "False") EXCEPT
                                          !.exc = "NodeExistsError"]]
  /\ UNCHANGED <<zk, now, hist, pre, lone, coord>>

release_datastore_groomer_lock(p) ==
  /\ th[p].pc = "idle"
  /\ th' = [th EXCEPT ![p] = [IdleTh EXCEPT !.pc = "rg_delete",
                                !.op = "release_datastore_groomer_lock"]]
  /\ pre' = IF lone THEN zk ELSE pre
  /\ UNCHANGED <<zk, now, hist, lone, coord, groomLock>>

\* handle.delete(DS_GROOM_LOCK_PATH) and the except clauses: NoNodeError
\* raises ZKTransactionException, any other error reconnects and returns
\* False.
release_datastore_groomer_lock_delete(p) ==
  /\ th[p].pc = "rg_delete"
  /\ \E f \in GroomFaults :
       IF f # "none"
       THEN /\ groomLock' = SessionDropped(p)
            /\ th' = [th EXCEPT ![p] = [Done(p, "False") EXCEPT !.exc = f]]
       ELSE IF groomLock = NoHolder
       THEN /\ groomLock' = groomLock
            /\ th' = [th EXCEPT ![p] = [Done(p, "ZKTransactionException")
                                          EXCEPT !.exc = "NoNodeError"]]
       ELSE /\ groomLock' = NoHolder
            /\ th' = [th EXCEPT ![p] = Done(p, "ok")]
  /\ UNCHANGED <<zk, now, hist, pre, lone, coord>>

\* ------------------------------------------------------- the specifications
\* The requests of the methods, grouped by the method that issues them.
BeginSteps(p) ==
  \/ create_sequence_node(p)
  \/ create_sequence_node_delete(p)

XgBeginSteps(p) == create_node(p)

BlacklistSteps(p) ==
  \/ is_blacklisted_exists(p)
  \/ is_blacklisted_create(p)
  \/ is_blacklisted_children(p)

AcquireSteps(p) ==
  \/ is_in_transaction_exists(p)
  \/ acquire_lock_get(p)
  \/ acquire_additional_lock_create(p)
  \/ acquire_additional_lock_create_list(p)

\* Requests of acquire_lock only a second entity group leads to.
SecondKeySteps(p) == acquire_lock_is_xg(p)

XgAcquireSteps(p) ==
  \/ acquire_additional_lock_get_list(p)
  \/ acquire_additional_lock_set_list(p)

ReleaseSteps(p) ==
  \/ check_transaction_exists(p)
  \/ release_lock_get(p)
  \/ release_lock_delete_lock(p)
  \/ release_lock_delete_list(p)
  \/ release_lock_is_xg(p)
  \/ release_lock_get_children(p)
  \/ release_lock_delete_tx(p)

NotifySteps(p) ==
  \/ notify_failed_transaction_get(p)
  \/ notify_failed_transaction_blacklist_exists(p)
  \/ notify_failed_transaction_blacklist_add(p)
  \/ notify_failed_transaction_get_ukeys(p)
  \/ notify_failed_transaction_delete_lock(p)
  \/ notify_failed_transaction_is_xg(p)
  \/ notify_failed_transaction_get_children(p)
  \/ notify_failed_transaction_delete_item(p)
  \/ notify_failed_transaction_delete_tx(p)

XgEndSteps(p) ==
  \/ release_lock_delete_xg(p)
  \/ notify_failed_transaction_delete_xg(p)

RegisterSteps(p) ==
  \/ register_updated_key_exists(p)
  \/ register_updated_key_set(p)
  \/ register_updated_key_tx_exists(p)
  \/ register_updated_key_create(p)

UkeySteps(p) ==
  \/ release_lock_delete_child(p)
  \/ notify_failed_transaction_get_ukey(p)
  \/ notify_failed_transaction_valid_exists(p)
  \/ notify_failed_transaction_valid_create(p)
  \/ notify_failed_transaction_valid_add(p)

GcSteps(p) ==
  \/ gc_runner(p)
  \/ try_garbage_collection_last_time(p)
  \/ try_garbage_collection_lock(p)
  \/ execute_garbage_collection_tx_list(p)
  \/ execute_garbage_collection_get_time(p)
  \/ try_garbage_collection_update(p)

\* Spec: concurrent callers, transactions of both kinds, the groups Keys.
\* A caller passes a transaction id that get_transaction_id has returned.
Next ==
  \/ \E p \in Clients, x \in BOOLEAN : get_transaction_id(p, x, ConcTxIds)
  \/ \E p \in Clients, t \in issued, k \in Keys : acquire_lock(p, t, k)
  \/ \E p \in Clients, t \in issued : release_lock(p, t)
  \/ \E p \in Clients, t \in issued : notify_failed_transaction(p, t)
  \/ \E p \in Clients :
       \/ BeginSteps(p)
       \/ XgBeginSteps(p)
       \/ BlacklistSteps(p)
       \/ AcquireSteps(p)
       \/ SecondKeySteps(p)
       \/ XgAcquireSteps(p)
       \/ ReleaseSteps(p)
       \/ NotifySteps(p)
       \/ XgEndSteps(p)
       \/ Return(p)

Spec == Init /\ [][Next]_vars

\* SpecMutex: concurrent callers with non-XG transactions that contend for
\* one entity group.
MutexNext ==
  \/ \E p \in Clients : get_transaction_id(p, FALSE, MaxTxId)
  \/ \E p \in Clients, t \in issued, k \in MutexKeys : acquire_lock(p, t, k)
  \/ \E p \in Clients, t \in issued : release_lock(p, t)
  \/ \E p \in Clients, t \in issued : notify_failed_transaction(p, t)
  \/ \E p \in Clients :
       \/ BeginSteps(p)
       \/ BlacklistSteps(p)
       \/ AcquireSteps(p)
       \/ ReleaseSteps(p)
       \/ NotifySteps(p)
       \/ Return(p)

SpecMutex == Init /\ [][MutexNext]_vars

\* SpecIds: concurrent callers of get_transaction_id.
IdsNext ==
  \/ \E p \in Clients, x \in BOOLEAN : get_transaction_id(p, x, MaxTxId)
  \/ \E p \in Clients :
       \/ BeginSteps(p)
       \/ XgBeginSteps(p)
       \/ Return(p)

SpecIds == Init /\ [][IdsNext]_vars

\* SpecSeq: one caller, one call at a time, any transaction id; pre is the
\* name-space in which the call began.
SeqNext ==
  \E p \in LoneCaller :
    \/ \E x \in BOOLEAN : get_transaction_id(p, x, SeqTxIds)
    \/ \E t \in 1 .. SeqTxIds, k \in Keys : acquire_lock(p, t, k)
    \/ \E t \in 1 .. SeqTxIds : release_lock(p, t)
    \/ \E t \in 1 .. SeqTxIds : notify_failed_transaction(p, t)
    \/ \E t \in 1 .. SeqTxIds, k \in Keys :
         register_updated_key(p, t, SeqTxIds, k)
    \/ BeginSteps(p)
    \/ XgBeginSteps(p)
    \/ BlacklistSteps(p)
    \/ AcquireSteps(p)
    \/ SecondKeySteps(p)
    \/ XgAcquireSteps(p)
    \/ ReleaseSteps(p)
    \/ NotifySteps(p)
    \/ XgEndSteps(p)
    \/ RegisterSteps(p)
    \/ UkeySteps(p)
    \/ Return(p)

SpecSeq == InitLone /\ [][SeqNext]_vars

\* SpecCap: one caller and enough entity groups to pass MAX_GROUPS_FOR_XG.
CapNext ==
  \E p \in LoneCaller :
    \/ \E x \in BOOLEAN : get_transaction_id(p, x, CapTxIds)
    \/ \E t \in issued, k \in AllKeys : acquire_lock(p, t, k)
    \/ \E t \in issued : release_lock(p, t)
    \/ \E t \in issued : notify_failed_transaction(p, t)
    \/ BeginSteps(p)
    \/ XgBeginSteps(p)
    \/ BlacklistSteps(p)
    \/ AcquireSteps(p)
    \/ SecondKeySteps(p)
    \/ XgAcquireSteps(p)
    \/ ReleaseSteps(p)
    \/ NotifySteps(p)
    \/ XgEndSteps(p)
    \/ Return(p)

SpecCap == InitLone /\ [][CapNext]_vars

\* SpecGc: the garbage-collector worker beside one caller of non-XG
\* transactions, while time passes.
GcNext ==
  \/ \E p \in LoneCaller : get_transaction_id(p, FALSE, CapTxIds)
  \/ \E p \in LoneCaller, t \in issued, k \in MutexKeys : acquire_lock(p, t, k)
  \/ \E p \in LoneCaller, t \in issued : release_lock(p, t)
  \/ \E p \in LoneCaller :
       \/ BeginSteps(p)
       \/ BlacklistSteps(p)
       \/ AcquireSteps(p)
       \/ ReleaseSteps(p)
       \/ Return(p)
  \/ \E p \in GcThreads :
       \/ GcSteps(p)
       \/ NotifySteps(p)
  \/ Tick

SpecGc == Init /\ [][GcNext]_vars

\* SpecRace: concurrent callers of acquire_lock on one transaction of either
\* kind, with enough entity groups to pass MAX_GROUPS_FOR_XG. The callers
\* take up the groups in ascending order: a call asks for one of the groups
\* locked so far or one of the next NumClients groups.
RaceKeys ==
  {k \in AllKeys :
     k <= Cardinality({j \in AllKeys : lockRoot[j] # NoTx}) + NumClients}

RaceNext ==
  \/ \E p \in Clients, x \in BOOLEAN : get_transaction_id(p, x, CapTxIds)
  \/ \E p \in Clients, t \in issued, k \in RaceKeys : acquire_lock(p, t, k)
  \/ \E p \in Clients :
       \/ BeginSteps(p)
       \/ XgBeginSteps(p)
       \/ BlacklistSteps(p)
       \/ AcquireSteps(p)
       \/ SecondKeySteps(p)
       \/ XgAcquireSteps(p)
       \/ Return(p)

SpecRace == Init /\ [][RaceNext]_vars

\* SpecCalls: one caller, one call at a time, on one transaction id and the
\* groups Keys; the previous call is recorded.
CallsNext ==
  \E p \in LoneCaller :
    \/ \E x \in BOOLEAN : get_transaction_id(p, x, CapTxIds)
    \/ \E t \in 1 .. CapTxIds, k \in Keys : acquire_lock(p, t, k)
    \/ \E t \in 1 .. CapTxIds : release_lock(p, t)
    \/ \E t \in 1 .. CapTxIds : notify_failed_transaction(p, t)
    \/ \E t \in 1 .. CapTxIds, v \in 1 .. SeqTxIds, k \in Keys :
         register_updated_key(p, t, v, k)
    \/ BeginSteps(p)
    \/ XgBeginSteps(p)
    \/ BlacklistSteps(p)
    \/ AcquireSteps(p)
    \/ SecondKeySteps(p)
    \/ XgAcquireSteps(p)
    \/ ReleaseSteps(p)
    \/ NotifySteps(p)
    \/ XgEndSteps(p)
    \/ RegisterSteps(p)
    \/ UkeySteps(p)
    \/ Return(p)

SpecCalls == InitCalls /\ [][CallsNext]_vars

\* The entity keys of the journal specification: their names hold a blank, a
\* plus sign and a slash.
JournalKeys == {2, 3, 4}

\* SpecJournal: one caller, one call at a time, of the journal methods on
\* non-XG transactions; the registrations that returned True are recorded.
JournalNext ==
  \E p \in LoneCaller :
    \/ get_transaction_id(p, FALSE, SeqTxIds)
    \/ \E t \in 1 .. SeqTxIds, k \in MutexKeys : acquire_lock(p, t, k)
    \/ \E t \in 1 .. SeqTxIds : notify_failed_transaction(p, t)
    \/ \E t \in 1 .. SeqTxIds, v \in 1 .. SeqTxIds, k \in JournalKeys :
         register_updated_key_upto(p, t, v, k, JournalUkeys)
    \/ \E t \in 1 .. SeqTxIds : get_updated_key_list(p, t)
    \/ \E t \in 1 .. SeqTxIds, k \in JournalKeys :
         get_valid_transaction_id(p, t, k)
    \/ BeginSteps(p)
    \/ BlacklistSteps(p)
    \/ AcquireSteps(p)
    \/ NotifySteps(p)
    \/ RegisterSteps(p)
    \/ notify_failed_transaction_get_ukey(p)
    \/ notify_failed_transaction_valid_exists(p)
    \/ notify_failed_transaction_valid_create(p)
    \/ notify_failed_transaction_valid_add(p)
    \/ get_updated_key_list_children(p)
    \/ get_updated_key_list_get(p)
    \/ get_valid_transaction_id_get(p)
    \/ Return(p)

SpecJournal == InitJournal /\ [][JournalNext]_vars

\* SpecExec: one thread calls run_with_timeout with every retry budget, the
\* function doing whatever a ZooKeeper request can do.
ExecNext ==
  \E p \in LoneCaller :
    \/ \E n \in 0 .. DEFAULT_NUM_RETRIES : run_with_timeout(p, n)
    \/ run_with_timeout_enter(p)
    \/ run_with_timeout_second(p)
    \/ run_with_timeout_function(p)
    \/ run_with_timeout_except(p)
    \/ run_with_timeout_alarm(p)
    \/ run_with_timeout_reconnect(p)
    \/ run_with_timeout_reconnect_alarm(p)
    \/ Return(p)

SpecExec == Init /\ [][ExecNext]_vars

\* SpecClose: the garbage-collector worker beside one caller who begins
\* transactions, takes locks and, as the last call, closes the coordinator,
\* while time passes.
CloseSteps(p) ==
  \/ stop_gc_test(p)
  \/ stop_gc_signal(p)
  \/ stop_gc_join(p)
  \/ close_stop(p)

CloseNext ==
  \/ /\ coord.handle = "started"
     /\ \/ \E p \in LoneCaller : get_transaction_id(p, FALSE, CapTxIds)
        \/ \E p \in LoneCaller, t \in issued, k \in MutexKeys :
             acquire_lock(p, t, k)
        \/ \E p \in LoneCaller : close(p)
  \/ \E p \in LoneCaller :
       \/ BeginSteps(p)
       \/ BlacklistSteps(p)
       \/ AcquireSteps(p)
       \/ CloseSteps(p)
       \/ Return(p)
  \/ \E p \in GcThreads :
       \/ GcSteps(p)
       \/ NotifySteps(p)
       \/ gc_runner_exit(p)
  \/ Tick

SpecClose == Init /\ [][CloseNext]_vars

\* SpecStartStop: two callers of start_gc and stop_gc, one of whom begins
\* non-XG transactions and takes locks, beside the worker that the constructor started and
\* the workers that start_gc starts, while time passes.
StartStopNext ==
  \/ \E p \in Clients : start_gc(p)
  \/ \E p \in Clients : stop_gc(p)
  \/ \E p \in LoneCaller : get_transaction_id(p, FALSE, CapTxIds)
  \/ \E p \in LoneCaller, t \in issued, k \in MutexKeys : acquire_lock(p, t, k)
  \/ \E p \in Clients :
       \/ stop_gc_test(p)
       \/ stop_gc_signal(p)
       \/ stop_gc_join(p)
       \/ BeginSteps(p)
       \/ BlacklistSteps(p)
       \/ AcquireSteps(p)
       \/ Return(p)
  \/ \E p \in GcWorkerThreads :
       \/ GcSteps(p)
       \/ NotifySteps(p)
       \/ gc_runner_exit(p)
  \/ Tick

SpecStartStop == Init /\ [][StartStopNext]_vars

\* SpecGroom: coordinators that take and release the groomer lock, each
\* through a session of its own.
GroomNext ==
  \/ \E p \in Clients : get_datastore_groomer_lock(p)
  \/ \E p \in Clients : release_datastore_groomer_lock(p)
  \/ \E p \in Clients :
       \/ get_datastore_groomer_lock_create(p)
       \/ release_datastore_groomer_lock_delete(p)
       \/ Return(p)

SpecGroom == Init /\ [][GroomNext]_vars

\* SpecNotify: the owner of a non-XG transaction takes its lock and, holding
\* it, releases it, while another thread reports the transaction as failed.
NotifyRaceNext ==
  \/ \E p \in LoneCaller : get_transaction_id(p, FALSE, ConcTxIds)
  \/ \E p \in LoneCaller, t \in issued, k \in MutexKeys : acquire_lock(p, t, k)
  \/ \E p \in LoneCaller, t \in issued :
       lockpath[t] # <<>> /\ release_lock(p, t)
  \/ \E p \in Clients \ LoneCaller, t \in issued :
       notify_failed_transaction(p, t)
  \/ \E p \in LoneCaller :
       \/ BeginSteps(p)
       \/ BlacklistSteps(p)
       \/ AcquireSteps(p)
       \/ ReleaseSteps(p)
  \/ \E p \in Clients \ LoneCaller : NotifySteps(p)
  \/ \E p \in Clients : Return(p)

SpecNotify == InitReleased /\ [][NotifyRaceNext]_vars

\* SpecWorkers: the garbage-collector workers of two coordinators (the
\* second coordinator's worker is the thread beside the caller) and one
\* caller of non-XG transactions, while time passes.
Workers == GcThreads \cup (Clients \ LoneCaller)

WorkersNext ==
  \/ \E p \in LoneCaller : get_transaction_id(p, FALSE, CapTxIds)
  \/ \E p \in LoneCaller, t \in issued, k \in MutexKeys : acquire_lock(p, t, k)
  \/ \E p \in LoneCaller :
       \/ BeginSteps(p)
       \/ BlacklistSteps(p)
       \/ AcquireSteps(p)
       \/ Return(p)
  \/ \E p \in Workers :
       \/ GcSteps(p)
       \/ NotifySteps(p)
  \/ Tick

SpecWorkers == Init /\ [][WorkersNext]_vars

\* SpecBegin: one caller of get_transaction_id for transactions of both
\* kinds, the creation of a node failing at any attempt.
BeginNext ==
  \/ \E p \in LoneCaller, x \in BOOLEAN : get_transaction_id(p, x, MaxTxId)
  \/ \E p \in LoneCaller :
       \/ BeginSteps(p)
       \/ XgBeginSteps(p)
       \/ create_sequence_node_fails(p)
       \/ create_node_fails(p)
       \/ Return(p)

SpecBegin == InitLone /\ [][BeginNext]_vars

\* SpecGcFaults: SpecGc with requests of the sweep and of the worker's loop
\* that fail.
GcFaultNext ==
  \/ GcNext
  \/ \E p \in GcThreads : execute_garbage_collection_tx_list_fails(p)
  \/ \E p \in GcThreads : execute_garbage_collection_get_time_fails(p)
  \/ \E p \in GcThreads : gc_runner_list_fails(p)

SpecGcFaults == Init /\ [][GcFaultNext]_vars

\* SpecPass: the passes of the worker over the application and one more
\* application, any request of try_garbage_collection and
\* execute_garbage_collection failing, beside one caller of non-XG
\* transactions, while time passes.
PassNext ==
  \/ \E p \in LoneCaller : get_transaction_id(p, FALSE, CapTxIds)
  \/ \E p \in LoneCaller, t \in issued, k \in MutexKeys : acquire_lock(p, t, k)
  \/ \E p \in LoneCaller :
       \/ BeginSteps(p)
       \/ BlacklistSteps(p)
       \/ AcquireSteps(p)
       \/ Return(p)
  \/ \E p \in GcThreads :
       \/ gc_runner_pass(p, OtherApps)
       \/ try_garbage_collection_last_time(p)
       \/ try_garbage_collection_last_time_fails(p)
       \/ try_garbage_collection_lock(p)
       \/ try_garbage_collection_lock_fails(p)
       \/ execute_garbage_collection_tx_list(p)
       \/ execute_garbage_collection_tx_list_fails(p)
       \/ execute_garbage_collection_get_time(p)
       \/ execute_garbage_collection_get_time_fails(p)
       \/ try_garbage_collection_update(p)
       \/ try_garbage_collection_other(p)
       \/ NotifySteps(p)
  \/ Tick

SpecPass == Init /\ [][PassNext]_vars

\* SpecCapCalls: SpecCap with the previous call recorded.
SpecCapCalls == InitCalls /\ [][CapNext]_vars

\* No thread is inside a coordinator method.
Quiescent == \A p \in Threads : th[p].pc = "idle"

\* SpecSweep: one caller and the garbage-collector worker take turns, a call
\* or a sweep starting only when nothing else is under way, while time
\* passes between them.
SweepNext ==
  \/ /\ Quiescent
     /\ \/ \E p \in LoneCaller : get_transaction_id(p, FALSE, SeqTxIds)
        \/ \E p \in LoneCaller, t \in issued, k \in Keys :
             acquire_lock(p, t, k)
        \/ \E p \in LoneCaller, t \in issued, v \in 1 .. SeqTxIds,
               k \in Keys : register_updated_key(p, t, v, k)
        \/ \E p \in GcThreads : gc_runner(p)
        \/ Tick
  \/ \E p \in LoneCaller :
       \/ BeginSteps(p)
       \/ BlacklistSteps(p)
       \/ AcquireSteps(p)
       \/ SecondKeySteps(p)
       \/ RegisterSteps(p)
       \/ Return(p)
  \/ \E p \in GcThreads :
       \/ try_garbage_collection_last_time(p)
       \/ try_garbage_collection_lock(p)
       \/ execute_garbage_collection_tx_list(p)
       \/ execute_garbage_collection_get_time(p)
       \/ try_garbage_collection_update(p)
       \/ NotifySteps(p)
       \/ notify_failed_transaction_get_ukey(p)
       \/ notify_failed_transaction_valid_exists(p)
       \/ notify_failed_transaction_valid_create(p)
       \/ notify_failed_transaction_valid_add(p)

SpecSweep == InitLone /\ [][SweepNext]_vars

\* SpecLive: one caller of non-XG transactions and the garbage-collector
\* worker take turns while time passes far enough for a second sweep.  The
\* worker is a thread of its own that loops while gc_running, waking every
\* GC_INTERVAL: a pass of its loop begins again and again (strong fairness:
\* the turn-taking disables it while a call is under way), and a pass that
\* has begun goes on to its end, as does a call of the caller (weak
\* fairness).
LiveCall(p) ==
  \/ BeginSteps(p)
  \/ BlacklistSteps(p)
  \/ AcquireSteps(p)
  \/ SecondKeySteps(p)
  \/ Return(p)

LiveSweep(p) ==
  \/ try_garbage_collection_last_time(p)
  \/ try_garbage_collection_lock(p)
  \/ execute_garbage_collection_tx_list(p)
  \/ execute_garbage_collection_get_time(p)
  \/ try_garbage_collection_update(p)
  \/ NotifySteps(p)

LiveNext ==
  \/ /\ Quiescent
     /\ \/ \E p \in LoneCaller : get_transaction_id(p, FALSE, SeqTxIds)
        \/ \E p \in LoneCaller, t \in issued, k \in Keys :
             acquire_lock(p, t, k)
        \/ \E p \in GcThreads : gc_runner(p)
        \/ TickUpTo(LiveMaxTime)
  \/ \E p \in LoneCaller : LiveCall(p)
  \/ \E p \in GcThreads : LiveSweep(p)

SpecLive ==
  /\ InitLone
  /\ [][LiveNext]_vars
  /\ SF_vars(Quiescent /\ \E p \in GcThreads : gc_runner(p))
  /\ WF_vars(\E p \in GcThreads : LiveSweep(p))
  /\ WF_vars(\E p \in LoneCaller : LiveCall(p))

\* ------------------------------------------------------------- properties
\* A live transaction: its node exists and it is not blacklisted.
Live(t) == TxExists(t) /\ t \notin blacklist

\* The lock root of k is in the lock list of t.
Listed(t, k) == k \in SeqToSet(lockpath[t])

\* C1: entity-group locks are mutually exclusive: whenever no call is under
\* way, no lock root is in the lock lists of two different existing
\* transactions.
MutualExclusion ==
  Quiescent =>
    \A k \in AllKeys, t1 \in TxIds, t2 \in TxIds :
      (t1 # t2 /\ TxExists(t1) /\ TxExists(t2) /\ Listed(t1, k))
        => ~Listed(t2, k)

\* C7: whenever no call is under way, the value of every lock root is the
\* path of a live transaction.
LockRootsOwnedByLiveTx ==
  Quiescent => \A k \in AllKeys : lockRoot[k] # NoTx => Live(lockRoot[k])

\* C8: whenever no call is under way, no lock root has the path of a
\* blacklisted transaction as its value.
NoLockRootOfBlacklistedTx ==
  Quiescent => \A k \in AllKeys : lockRoot[k] \notin blacklist

\* C9: whenever no call is under way, the lock list of a live transaction T
\* holds every lock root whose value is the path of T.
LockpathListsOwnedRoots ==
  Quiescent =>
    \A k \in AllKeys, t \in TxIds :
      (lockRoot[k] = t /\ Live(t)) => Listed(t, k)

\* The call of thread p to method m has come to its end.
Ended(p, m) == th[p].pc = "done" /\ th[p].op = m

\* The name-space in which the call of the lone caller began.
PreTxNode == pre[3]
PreXgNode == pre[4]
PreLockpath == pre[5]
PreLockRoot == pre[8]
PreBlacklist == pre[10]
PreTxSeq == pre[2]
PreUkeys == pre[6]
PreBlacklistRoot == pre[9]
PreValidRoot == pre[11]
PreValidlist == pre[12]

\* The call left every lock root and every lock list as they were.
LocksUntouched == lockRoot = PreLockRoot /\ lockpath = PreLockpath

\* C2 as stated: every get_transaction_id that completes returns an id that
\* is not 0 and is greater than every id returned by a call that completed
\* before it.
IdsIncreaseInCompletionOrder ==
  [][\A p \in Threads :
       (/\ th[p].pc # "done"
        /\ th'[p].pc = "done"
        /\ th'[p].op = "get_transaction_id"
        /\ th'[p].res = "ok")
         => (th'[p].tx # 0 /\ th'[p].tx > SetMax(issued))]_vars

\* C2: the id that get_transaction_id returns is not 0, is greater than every
\* id returned by a call that completed before this call began, and differs
\* from every id returned to another caller.
IdsIncreaseAcrossCalls ==
  \A p \in Threads :
    (Ended(p, "get_transaction_id") /\ th[p].res = "ok")
      => /\ th[p].tx # 0
         /\ th[p].tx > th[p].floor
         /\ \A q \in Threads \ {p} :
              (Ended(q, "get_transaction_id") /\ th[q].res = "ok")
                => th[q].tx # th[p].tx

\* A call of get_transaction_id that began after another one had returned
\* has returned its id, while a greater id is out already.
IdReturnedAfterGreaterId ==
  \E p \in Threads :
    /\ Ended(p, "get_transaction_id")
    /\ th[p].res = "ok"
    /\ th[p].floor > 0
    /\ th[p].tx < SetMax(issued)

\* The lock root of the key of the call of p had another transaction's path
\* as its value when the call began.
RootOfOther(p) ==
  /\ PreLockRoot[th[p].key] # NoTx
  /\ PreLockRoot[th[p].key] # th[p].tx

\* Transaction t1 held the lock of the key when the call of p for another
\* transaction began: t1 existed, the lock root had its path as value and
\* was in its lock list; the transaction of the call existed and was not
\* blacklisted.
HeldByOther(p) ==
  /\ RootOfOther(p)
  /\ PreTxNode[PreLockRoot[th[p].key]] # NoNode
  /\ th[p].key \in SeqToSet(PreLockpath[PreLockRoot[th[p].key]])
  /\ PreTxNode[th[p].tx] # NoNode
  /\ th[p].tx \notin PreBlacklist

\* C3 as stated: acquire_lock on a key that another transaction holds fails
\* with the "already held" error and leaves lock roots and lock lists alone.
HeldKeyFailsAlreadyHeld ==
  \A p \in LoneCaller :
    (Ended(p, "acquire_lock") /\ HeldByOther(p))
      => /\ th[p].res = "ZKTransactionException:already held"
         /\ LocksUntouched

\* C3: acquire_lock(t2, k), with the lock root of k valued another
\* transaction's path and k not in the lock list of t2, fails with a
\* transaction error and leaves every lock root and lock list unchanged; the
\* error is "timed out" for a blacklisted t2, the different-root error for a
\* non-XG t2 that has a lock list, and "already held" otherwise.
HeldKeyFailsUnchanged ==
  \A p \in LoneCaller :
    (/\ Ended(p, "acquire_lock")
     /\ RootOfOther(p)
     /\ th[p].key \notin SeqToSet(PreLockpath[th[p].tx]))
      => /\ th[p].res =
              IF th[p].tx \in PreBlacklist
              THEN "ZKTransactionException:timed out"
              ELSE IF PreLockpath[th[p].tx] # <<>> /\ ~PreXgNode[th[p].tx]
              THEN "ZKTransactionException:different root entity"
              ELSE "ZKTransactionException:already held"
         /\ LocksUntouched

\* acquire_lock on a key that another live transaction holds has failed with
\* "already held".
HeldKeyRefused ==
  \E p \in LoneCaller :
    /\ Ended(p, "acquire_lock")
    /\ HeldByOther(p)
    /\ th[p].res = "ZKTransactionException:already held"

\* C4: acquire_lock(t, k2) for a non-XG transaction t whose lock list holds
\* another group fails with the different-root error, creates no lock root
\* and leaves the lock list of t unchanged.
SecondGroupRefusedForNonXg ==
  \A p \in LoneCaller :
    (/\ Ended(p, "acquire_lock")
     /\ PreLockpath[th[p].tx] # <<>>
     /\ th[p].key \notin SeqToSet(PreLockpath[th[p].tx])
     /\ ~PreXgNode[th[p].tx])
      => /\ th[p].res = "ZKTransactionException:different root entity"
         /\ LocksUntouched

\* A non-XG transaction that holds one group has asked for a free second
\* group and the call is over.
SecondGroupAskedByNonXg ==
  \E p \in LoneCaller :
    /\ Ended(p, "acquire_lock")
    /\ Len(PreLockpath[th[p].tx]) = 1
    /\ th[p].key \notin SeqToSet(PreLockpath[th[p].tx])
    /\ ~PreXgNode[th[p].tx]
    /\ PreLockRoot[th[p].key] = NoTx
    /\ th[p].res = "ZKTransactionException:different root entity"

\* C5: acquire_lock of an XG transaction on a free group it does not hold
\* succeeds and appends the lock root to the lock list while the list has
\* fewer than five entries, and fails with "too many groups", the list
\* unchanged, once it has five.
XgAcquiresUpToFive ==
  \A p \in LoneCaller :
    (/\ Ended(p, "acquire_lock")
     /\ PreXgNode[th[p].tx]
     /\ PreLockRoot[th[p].key] = NoTx
     /\ th[p].key \notin SeqToSet(PreLockpath[th[p].tx]))
      => IF Len(PreLockpath[th[p].tx]) < 5
         THEN /\ th[p].res = "ok"
              /\ lockpath[th[p].tx] = Append(PreLockpath[th[p].tx], th[p].key)
         ELSE /\ th[p].res = "ZKTransactionException:too many groups"
              /\ lockpath = PreLockpath

\* The sixth acquire_lock of an XG transaction, after five that succeeded in
\* a row, has failed.
SixthGroupRefused ==
  \E p \in LoneCaller :
    /\ Ended(p, "acquire_lock")
    /\ PreXgNode[th[p].tx]
    /\ PreLockpath[th[p].tx] = <<1, 2, 3, 4, 5>>
    /\ th[p].key = 6
    /\ th[p].res = "ZKTransactionException:too many groups"
    /\ lockpath[th[p].tx] = <<1, 2, 3, 4, 5>>

\* C6: acquire_lock for a key whose lock root is in the lock list of the
\* transaction returns True and leaves every lock root and lock list
\* unchanged.
AcquireHeldKeyIdempotent ==
  \A p \in LoneCaller :
    (/\ Ended(p, "acquire_lock")
     /\ th[p].key \in SeqToSet(PreLockpath[th[p].tx]))
      => th[p].res = "ok" /\ LocksUntouched

\* An XG transaction that holds two groups has asked again for the second.
HeldKeyAskedAgain ==
  \E p \in LoneCaller :
    /\ Ended(p, "acquire_lock")
    /\ PreXgNode[th[p].tx]
    /\ Len(PreLockpath[th[p].tx]) = 2
    /\ th[p].key = PreLockpath[th[p].tx][2]
    /\ th[p].res = "ok"

\* C10: the lock list of a transaction has at most five entries, and exactly
\* one when the transaction was not begun as a cross-group one.
LockListSizes ==
  \A t \in TxIds :
    /\ Len(lockpath[t]) <= 5
    /\ (t \notin xgTx /\ lockpath[t] # <<>>) => Len(lockpath[t]) = 1

\* A lock list is full.
LockListFull == \E t \in TxIds : t \in xgTx /\ Len(lockpath[t]) = 5

\* The name-space in which the call of p began is the one that
\* get_transaction_id and acquire_lock(k) leave on a fresh application:
\* transaction 1 is the only transaction node, it holds the lock of k and
\* nothing else exists under txids but the blacklist root.
FreshAndHeld(p, k) ==
  /\ th[p].tx = 1
  /\ PreTxSeq = 2
  /\ \A t \in TxIds : (PreTxNode[t] # NoNode) <=> (t = 1)
  /\ PreLockpath = [t \in TxIds |-> IF t = 1 THEN <<k>> ELSE <<>>]
  /\ PreLockRoot = [j \in AllKeys |-> IF j = k THEN 1 ELSE NoTx]
  /\ \A t \in TxIds : PreUkeys[t] = {}
  /\ PreBlacklist = {}
  /\ ~PreValidRoot
  /\ \A j \in AllKeys : PreValidlist[j] = NoVal

\* No transaction node, no child of one and no lock root exists.
NoTxAndNoLock ==
  /\ \A t \in TxIds :
       /\ txNode[t] = NoNode
       /\ lockpath[t] = <<>>
       /\ ~xgNode[t]
       /\ ukeys[t] = {}
  /\ \A j \in AllKeys : lockRoot[j] = NoTx

\* No blacklist entry, no validlist root and no validlist anchor exists.
NoListEntry ==
  /\ blacklist = {}
  /\ ~validRoot
  /\ \A j \in AllKeys : validlist[j] = NoVal

\* C11 as stated: get_transaction_id; acquire_lock(k); release_lock on a
\* fresh application leaves nothing under txids and nothing at locks/k.
RoundTripLeavesNothing ==
  \A p \in LoneCaller, k \in Keys :
    (Ended(p, "release_lock") /\ FreshAndHeld(p, k))
      => /\ th[p].res = "ok"
         /\ NoTxAndNoLock
         /\ NoListEntry
         /\ ~blacklistRoot

\* C11: get_transaction_id; acquire_lock(k); release_lock on a fresh
\* application leaves no transaction node, no child of one and no lock root;
\* under txids only the empty blacklist root is left, which is_blacklisted
\* created.
RoundTripLeavesBlacklistRoot ==
  \A p \in LoneCaller, k \in Keys :
    (Ended(p, "release_lock") /\ FreshAndHeld(p, k))
      => /\ th[p].res = "ok"
         /\ NoTxAndNoLock
         /\ NoListEntry
         /\ blacklistRoot

\* release_lock has returned True after get_transaction_id and acquire_lock
\* on a fresh application.
RoundTripDone ==
  \E p \in LoneCaller, k \in Keys :
    /\ Ended(p, "release_lock")
    /\ FreshAndHeld(p, k)
    /\ th[p].res = "ok"

\* The call that returned before the one under way was method m on the
\* same transaction and returned True.
AfterTrue(p, m) ==
  /\ trail.last.op = m
  /\ trail.last.tx = th[p].tx
  /\ trail.last.res = "ok"

\* C12 as stated: when release_lock returns True the transaction node is
\* gone, and a release_lock that follows one that returned True fails with
\* the "not valid" error.
ReleaseInvalidates ==
  \A p \in LoneCaller :
    Ended(p, "release_lock")
      => /\ th[p].res = "ok" => txNode[th[p].tx] = NoNode
         /\ AfterTrue(p, "release_lock")
              => th[p].res = "ZKTransactionException:not valid"

\* C12: when release_lock returns True for a transaction that had a lock
\* list, the transaction node is gone; and a release_lock that follows a
\* release_lock that returned True and finds the transaction node gone fails
\* with the "not valid" error.
ReleaseOfLockedInvalidates ==
  \A p \in LoneCaller :
    Ended(p, "release_lock")
      => /\ (th[p].res = "ok" /\ PreLockpath[th[p].tx] # <<>>)
              => txNode[th[p].tx] = NoNode
         /\ (AfterTrue(p, "release_lock") /\ PreTxNode[th[p].tx] = NoNode)
              => th[p].res = "ZKTransactionException:not valid"

\* A second release_lock, after one that returned True and removed the
\* transaction node, has failed with "not valid".
SecondReleaseRefused ==
  \E p \in LoneCaller :
    /\ Ended(p, "release_lock")
    /\ AfterTrue(p, "release_lock")
    /\ th[p].tx \in issued
    /\ PreTxNode[th[p].tx] = NoNode
    /\ th[p].res = "ZKTransactionException:not valid"

\* C13: release_lock on a transaction that an earlier release_lock has
\* removed, or that is blacklisted, fails ("not valid", or "timed out" for the
\* blacklisted one) and leaves the whole name-space unchanged.
ReleaseOfEndedTxChangesNothing ==
  \A p \in LoneCaller :
    (/\ Ended(p, "release_lock")
     /\ \/ th[p].tx \in trail.released /\ PreTxNode[th[p].tx] = NoNode
        \/ th[p].tx \in PreBlacklist)
      => /\ zk = pre
         /\ th[p].res = IF th[p].tx \in PreBlacklist
                        THEN "ZKTransactionException:timed out"
                        ELSE "ZKTransactionException:not valid"

\* release_lock on a blacklisted transaction is over.
ReleaseOfFailedTxDone ==
  \E p \in LoneCaller :
    /\ Ended(p, "release_lock")
    /\ th[p].tx \in PreBlacklist
    /\ th[p].res = "ZKTransactionException:timed out"

\* C14: a notify_failed_transaction that follows a notify_failed_transaction
\* of the same transaction returns True as the first one did and leaves the
\* whole name-space as the first one left it.
NotifyTwiceSameAsOnce ==
  \A p \in LoneCaller :
    (/\ Ended(p, "notify_failed_transaction")
     /\ trail.last.op = "notify_failed_transaction"
     /\ trail.last.tx = th[p].tx)
      => zk = pre /\ th[p].res = "ok"

\* The second notify_failed_transaction of a transaction that the first one
\* has blacklisted is over, with a validlist anchor in place.
NotifiedTwice ==
  \E p \in LoneCaller :
    /\ Ended(p, "notify_failed_transaction")
    /\ AfterTrue(p, "notify_failed_transaction")
    /\ th[p].tx \in blacklist
    /\ \E k \in Keys : validlist[k] # NoVal

\* As the sweep began, transaction t was older than TX_TIMEOUT, held the
\* lock of k and had the updated key k registered with target v.
SweepFinds(t, k, v) ==
  /\ PreTxNode[t] \notin {NoNode, EmptyVal}
  /\ TimedOut(PreTxNode[t], now)
  /\ k \in SeqToSet(PreLockpath[t])
  /\ PreLockRoot[k] = t
  /\ \E u \in PreUkeys[t] : u.val = UkeyValue(k, v)

\* C15: when a sweep of the garbage collector has passed over a transaction
\* that was older than TX_TIMEOUT, held the lock of k and had the updated key
\* k registered with target v, the transaction is in the blacklist, the lock
\* root of k is gone and validlist/k holds v.
SweepPromotesTimedOut ==
  \A p \in GcThreads, t \in CallerTxIds, k \in Keys, v \in 1 .. SeqTxIds :
    (th[p].pc = "gc_update" /\ SweepFinds(t, k, v))
      => /\ t \in blacklist
         /\ lockRoot[k] = NoTx
         /\ validlist[k] = v

\* The same, when no validlist anchor of k existed as the sweep began and no
\* other transaction it found had registered k.
SweepPromotesFirstAnchor ==
  \A p \in GcThreads, t \in CallerTxIds, k \in Keys, v \in 1 .. SeqTxIds :
    (/\ th[p].pc = "gc_update"
     /\ SweepFinds(t, k, v)
     /\ PreValidlist[k] = NoVal
     /\ \A t2 \in CallerTxIds, k2 \in Keys, v2 \in 1 .. SeqTxIds :
          (\E u \in PreUkeys[t2] : u.val = UkeyValue(k2, v2))
            => (k2 = k => (t2 = t /\ v2 = v)))
      => /\ t \in blacklist
         /\ lockRoot[k] = NoTx
         /\ validlist[k] = v

\* The call of p on a transaction that was in the blacklist as the call began
\* has failed, has created no lock root and has changed no validlist anchor.
RefusedUnchanged(p) ==
  /\ th[p].res # "ok"
  /\ \A k \in AllKeys : PreLockRoot[k] = NoTx => lockRoot[k] = NoTx
  /\ validlist = PreValidlist

\* C16: once a transaction is in the blacklist, every acquire_lock,
\* release_lock and register_updated_key on it fails with a transaction error,
\* creates no lock root and changes no validlist anchor.
BlacklistedTxRefused ==
  \A p \in LoneCaller :
    (/\ th[p].pc = "done"
     /\ th[p].op \in {"acquire_lock", "release_lock", "register_updated_key"}
     /\ th[p].tx \in PreBlacklist)
      => RefusedUnchanged(p)

\* The same of acquire_lock and release_lock alone.
BlacklistedTxLocksRefused ==
  \A p \in LoneCaller :
    (/\ th[p].pc = "done"
     /\ th[p].op \in {"acquire_lock", "release_lock"}
     /\ th[p].tx \in PreBlacklist)
      => RefusedUnchanged(p)

\* register_updated_key of p has returned True and added one ukey child to
\* its transaction, whose value reads back as the key and the target.
OneUkeyAdded(p) ==
  /\ th[p].res = "ok"
  /\ \E u \in ukeys[th[p].tx] :
       /\ u \notin PreUkeys[th[p].tx]
       /\ ukeys = [PreUkeys EXCEPT ![th[p].tx] = @ \cup {u}]
       /\ Len(split(u.val)) = 2
       /\ unquote_plus(split(u.val)[1]) = KeyName[th[p].key]
       /\ long(split(u.val)[2]) = th[p].tgt

\* register_updated_key of p has failed and changed nothing.
RegisterRefused(p) ==
  /\ th[p].res = "ZKTransactionException:not valid"
  /\ zk = pre

NamesIn(reg, t) == {KeyName[k] : k \in {j \in AllKeys : <<t, j>> \in reg}}

\* C18 as stated: for a transaction whose node exists get_updated_key_list
\* returns the keys for which register_updated_key returned True; it fails
\* with "not valid" when the node is gone.
KeyListIsRegisteredKeys ==
  \A p \in LoneCaller :
    Ended(p, "get_updated_key_list")
      => IF PreTxNode[th[p].tx] = NoNode
         THEN th[p].res = "ZKTransactionException:not valid"
         ELSE /\ th[p].res = "ok"
              /\ SeqToSet(th[p].keylist) = NamesIn(trail.registered, th[p].tx)

\* C18: for a transaction whose node exists get_updated_key_list returns the
\* keys for which register_updated_key returned True while the key had no
\* validlist anchor, each as the key string the caller passed; it fails with
\* "not valid" when the node is gone.
KeyListIsKeptKeys ==
  \A p \in LoneCaller :
    Ended(p, "get_updated_key_list")
      => IF PreTxNode[th[p].tx] = NoNode
         THEN th[p].res = "ZKTransactionException:not valid"
         ELSE /\ th[p].res = "ok"
              /\ SeqToSet(th[p].keylist) = NamesIn(trail.kept, th[p].tx)

\* get_updated_key_list has returned two different keys, "a/b" among them.
TwoKeysListed ==
  \E p \in LoneCaller :
    /\ Ended(p, "get_updated_key_list")
    /\ th[p].res = "ok"
    /\ Len(th[p].keylist) = 2
    /\ KeyName[4] \in SeqToSet(th[p].keylist)
    /\ th[p].keylist[1] # th[p].keylist[2]

\* get_valid_transaction_id returns the target that is not blacklisted, and
\* for a blacklisted target the value of the key's anchor, 0 without one.
ValidIdOfTarget ==
  \A p \in LoneCaller :
    Ended(p, "get_valid_transaction_id")
      => /\ th[p].res = "ok"
         /\ th[p].vid = IF th[p].tgt \notin PreBlacklist THEN th[p].tgt
                        ELSE IF PreValidlist[th[p].key] # NoVal
                        THEN PreValidlist[th[p].key]
                        ELSE 0

\* C19: get_valid_transaction_id returns the target that is not blacklisted,
\* for a blacklisted target the value of the key's anchor, 0 without one, and
\* never a blacklisted target itself.
ValidIdNeverBlacklisted ==
  \A p \in LoneCaller :
    Ended(p, "get_valid_transaction_id")
      => /\ th[p].res = "ok"
         /\ th[p].vid = (IF th[p].tgt \notin PreBlacklist THEN th[p].tgt
                         ELSE IF PreValidlist[th[p].key] # NoVal
                         THEN PreValidlist[th[p].key]
                         ELSE 0)
         /\ th[p].tgt \in PreBlacklist => th[p].vid # th[p].tgt

\* C20: when the deadline elapses while the function runs, the next step of
\* run_with_timeout fails the invocation with the "timed out" error, without
\* another call of the function and without a reconnection, whatever retries
\* are left.
TimeoutFailsInvocation ==
  [][\A p \in LoneCaller :
       (/\ th[p].pc = "rwt_call"
        /\ th[p].elapsed = DEFAULT_ZK_TIMEOUT
        /\ th'[p] # th[p])
         => /\ th'[p].pc = "done"
            /\ th'[p].res = "ZKTransactionException:timed out"
            /\ th'[p].calls = th[p].calls
            /\ th'[p].conns = th[p].conns]_vars

\* run_with_timeout has failed on the deadline of its second call of the
\* function, with retries left.
TimedOutWithRetriesLeft ==
  \E p \in LoneCaller :
    /\ Ended(p, "run_with_timeout")
    /\ th[p].res = "ZKTransactionException:timed out"
    /\ th[p].elapsed = DEFAULT_ZK_TIMEOUT
    /\ th[p].calls = 2
    /\ th[p].retries >= 2

\* C21: when the function raises a pass-through error (NoNodeError,
\* NodeExistsError, DataInconsistency, BadArgumentsError,
\* SystemZookeeperError), the next step of run_with_timeout raises that error
\* to the caller with no further call of the function, no reconnection and
\* the retries as they were; when it was the first call of the function, that
\* is one call, no reconnection and the whole budget.
PassThroughRaisedAtOnce ==
  [][\A p \in LoneCaller :
       (/\ th[p].pc = "rwt_except"
        /\ th[p].exc \in {"NoNodeError", "NodeExistsError", "DataInconsistency",
                          "BadArgumentsError", "SystemZookeeperError"}
        /\ th'[p] # th[p])
         => /\ th'[p].pc = "done"
            /\ th'[p].res = th[p].exc
            /\ th'[p].calls = th[p].calls
            /\ th'[p].conns = th[p].conns
            /\ th'[p].retries = th[p].retries
            /\ th[p].retries = th[p].budget
                 => th[p].calls = 1 /\ th[p].conns = 0]_vars

\* run_with_timeout has raised the NodeExistsError of the first call of the
\* function, with the whole budget of DEFAULT_NUM_RETRIES left.
NodeExistsRaisedAtOnce ==
  \E p \in LoneCaller :
    /\ Ended(p, "run_with_timeout")
    /\ th[p].res = "NodeExistsError"
    /\ th[p].calls = 1
    /\ th[p].conns = 0
    /\ th[p].retries = DEFAULT_NUM_RETRIES
    /\ th[p].budget = DEFAULT_NUM_RETRIES

\* C22: after a reconnect-and-retry error (ConnectionLoss,
\* ConnectionClosedError, OperationTimeoutError, SessionExpiredError)
\* run_with_timeout re-creates the connection once, and the call it makes
\* next has one retry less and passes the function the same arguments.
ReconnectRetriesSameCall ==
  [][\A p \in LoneCaller :
       /\ (/\ th[p].pc = "rwt_except"
           /\ th[p].exc \in {"ConnectionLoss", "ConnectionClosedError",
                             "OperationTimeoutError", "SessionExpiredError"}
           /\ th'[p] # th[p])
            => /\ th'[p].pc = "rwt_reconnect"
               /\ th'[p].conns = th[p].conns + 1
               /\ th'[p].calls = th[p].calls
       /\ (th[p].pc = "rwt_reconnect" /\ th'[p].pc = "rwt_enter")
            => /\ th'[p].retries = th[p].retries - 1
               /\ th'[p].conns = th[p].conns
               /\ th'[p].args = th[p].args]_vars

\* C23: a run of run_with_timeout in which every call of the function raised
\* a retried error (the run ended neither by a return, nor by a pass-through
\* error, nor by the alarm going off inside the function) has called the
\* function exactly num_retries times and raises the ZKTransactionException
\* "no more retries"; no run calls the function more than num_retries times.
RetriedErrorsExhaustBudget ==
  \A p \in LoneCaller :
    /\ th[p].calls <= th[p].budget
    /\ (/\ Ended(p, "run_with_timeout")
        /\ th[p].res \notin {"ok", "ZKTransactionException:timed out"}
        /\ th[p].res \notin {"NoNodeError", "NodeExistsError",
                             "DataInconsistency", "BadArgumentsError",
                             "SystemZookeeperError"})
         => /\ th[p].res = "ZKTransactionException:no more retries"
            /\ th[p].calls = th[p].budget

\* What does hold of the budget: the function is never called more than
\* num_retries times, and "no more retries" is raised after exactly
\* num_retries calls.
NoMoreRetriesAfterBudgetCalls ==
  \A p \in LoneCaller :
    /\ th[p].calls <= th[p].budget
    /\ (Ended(p, "run_with_timeout")
          /\ th[p].res = "ZKTransactionException:no more retries")
         => th[p].calls = th[p].budget /\ th[p].retries = 0

\* C24: no call of a method of the API ends with a raw error of ZooKeeper
\* (NoNodeError, NodeExistsError): a call returns, or raises a
\* ZKTransactionException or a timeout.
NoRawServiceError ==
  \A p \in Clients :
    (th[p].pc = "done"
       /\ th[p].op \in {"get_transaction_id", "acquire_lock", "release_lock",
                        "register_updated_key", "get_updated_key_list",
                        "get_valid_transaction_id"})
      => th[p].res \notin {"NoNodeError", "NodeExistsError"}

\* A transaction older than TX_TIMEOUT that holds the lock of some group.
ExpiredLockHolder(t) ==
  /\ txNode[t] >= 0
  /\ TimedOut(txNode[t], now)
  /\ \E k \in Keys : lockRoot[k] = t

\* C25: while the worker keeps sweeping, a transaction older than TX_TIMEOUT
\* that holds a lock when a sweep of the application is due is eventually
\* blacklisted and holds no lock root any more, also when it passes
\* TX_TIMEOUT after a sweep of the application.
ExpiredLockHolderSwept ==
  \A t \in CallerTxIds :
    (ExpiredLockHolder(t) /\ GcDue(gclast, now))
      ~> (t \in blacklist /\ \A k \in Keys : lockRoot[k] # t)

GroomerLockExclusive ==
  [][\A p \in Clients :
       /\ (th[p].pc = "gl_create" /\ th'[p].pc = "done")
            => /\ th'[p].res = "ok"
                    => groomLock = NoHolder /\ groomLock' = p
               /\ groomLock # NoHolder => th'[p].res = "False"
       /\ (th[p].pc = "rg_delete" /\ th'[p].pc = "done")
            => /\ th'[p].res = "ok"
                    => groomLock # NoHolder /\ groomLock' = NoHolder
               /\ (groomLock # NoHolder /\ th'[p].exc = "none")
                    => th'[p].res = "ok"
               /\ (groomLock = NoHolder /\ th'[p].exc = "NoNodeError")
                    => th'[p].res = "ZKTransactionException"
               /\ groomLock = NoHolder => th'[p].res # "ok"]_vars

\* One coordinator has been refused the groomer lock while the other held
\* it, and the holder has released it since.
GroomerLockRefused ==
  \E p, q \in Clients :
    /\ Ended(p, "release_datastore_groomer_lock")
    /\ th[p].res = "ok"
    /\ groomLock = NoHolder
    /\ Ended(q, "get_datastore_groomer_lock")
    /\ th[q].res = "False"
    /\ th[q].exc = "NodeExistsError"

\* C28: a transaction for which release_lock has returned True is not in the
\* blacklist, then or at any later time, whatever notify_failed_transaction
\* does beside it.
ReleasedNeverBlacklisted ==
  /\ \A t \in trail.released : ~InBlacklist(t)
  /\ \A p \in Clients :
       (Ended(p, "release_lock") /\ th[p].res = "ok") => ~InBlacklist(th[p].tx)

\* The worker p is past handle.create(gc_path, ...) in a sweep of the
\* application.
Sweeping(p) ==
  /\ th[p].ret = "gc"
  /\ th[p].pc \notin {"idle", "gc_last_time", "gc_lock", "gc_other"}

\* C29: at most one worker sweeps the application at a time; a worker begins
\* its sweep (and so calls notify_failed_transaction) only by creating
\* gclock itself, and a worker that finds gclock existing gives up the pass
\* and changes nothing.
OneWorkerSweeps ==
  [][/\ \A p, q \in Workers : (Sweeping(p)' /\ Sweeping(q)') => p = q
     /\ \A p \in Workers :
          /\ (~Sweeping(p) /\ Sweeping(p)')
               => th[p].pc = "gc_lock" /\ ~gclock /\ gclock'
          /\ (th[p].pc = "gc_lock" /\ gclock /\ th'[p] # th[p])
               => th'[p].pc = "idle" /\ zk' = zk
          /\ Sweeping(p)' => gclock']_vars

\* One worker is calling notify_failed_transaction in its sweep while the
\* other, whose sweep is due as well, is at handle.create(gc_path, ...).
WorkerSkipsDuringSweep ==
  \E p, q \in Workers :
    /\ th[p].ret = "gc"
    /\ th[p].pc = "nf_blacklist_add"
    /\ th[q].pc = "gc_lock"
    /\ gclock

\* C30: get_transaction_id makes at most DEFAULT_NUM_RETRIES attempts to
\* create a node; a failed creation, of the transaction node or of its xg
\* child, is tried again while attempts are left, so that (a timeout of
\* run_with_timeout apart) the call fails only when no attempt is left, and
\* then with a ZKTransactionException.
BeginFailsAfterAllAttempts ==
  [][\A p \in LoneCaller :
       /\ th'[p].pc = "csn_create" => th'[p].retries \in 0 .. DEFAULT_NUM_RETRIES
       /\ (/\ th[p].op = "get_transaction_id"
           /\ th[p].pc # "done"
           /\ th'[p].pc = "done"
           /\ th'[p].res # "ok"
           /\ th'[p].exc # "ZKTransactionException:timed out")
            => /\ th[p].pc = "csn_create"
               /\ th[p].retries <= 0
               /\ th'[p].res = "ZKTransactionException"]_vars

\* What does hold of create_sequence_node: it makes no more than
\* DEFAULT_NUM_RETRIES attempts, goes on after an error of ZooKeeper while
\* attempts are left, and raises ZKTransactionException when none is left.
SequenceNodeRetried ==
  [][\A p \in LoneCaller :
       /\ th'[p].pc = "csn_create" => th'[p].retries \in 0 .. DEFAULT_NUM_RETRIES
       /\ (/\ th[p].pc = "csn_create"
           /\ th'[p].pc = "done"
           /\ th'[p].res # "ok"
           /\ th'[p].exc # "ZKTransactionException:timed out")
            => /\ th[p].retries <= 0
               /\ th'[p].res = "ZKTransactionException"]_vars

\* C31: gclast_time is written only by a sweep in which no request failed;
\* after a failed request of the sweep gclast_time stays as it is, and the
\* step that ends the sweep is the delete of gclock.
GcTimeOnlyAfterGoodSweep ==
  [][\A p \in GcThreads :
       (th[p].ret = "gc" /\ th[p].exc # "none" /\ th'[p] # th[p])
         => /\ gclast' = gclast
            /\ th'[p].pc = "idle" => (gclock /\ ~gclock')]_vars

\* C32: an error of a request made for one application does not end the
\* pass: while applications of app_list are left the worker goes on to
\* them, dropping none but the one it handles next, and the worker thread
\* does not end, so that it is back at its wait with gc_running still True.
GcErrorSwallowed ==
  [][\A p \in GcThreads :
       (th[p].ret = "gc" /\ th'[p] # th[p])
         => /\ th'[p].pc # "gc_exit"
            /\ coord'.gc_running
            /\ th[p].apps # {}
                 => \/ th'[p].ret = "gc" /\ th'[p].apps = th[p].apps
                    \/ /\ th[p].pc = "gc_other"
                       /\ \E a \in th[p].apps :
                            th'[p].apps = th[p].apps \ {a}]_vars

\* After an error of a request made for the application, the worker is at
\* try_garbage_collection of the next application of its pass.
NextAppAfterError ==
  \E p \in GcThreads :
    /\ th[p].pc = "gc_other"
    /\ th[p].exc = "ZookeeperError"
    /\ th[p].apps = OtherApps

\* C33: when acquire_lock of an XG transaction was refused for too many
\* groups, the release_lock or notify_failed_transaction of that transaction
\* that comes next leaves no lock root of the refused group with the
\* transaction as its value.
RefusedGroupFreedAtEnd ==
  \A p \in LoneCaller :
    (/\ trail.last.op = "acquire_lock"
     /\ trail.last.res = "ZKTransactionException:too many groups"
     /\ th[p].pc = "done"
     /\ th[p].op \in {"release_lock", "notify_failed_transaction"}
     /\ th[p].tx = trail.last.tx
     /\ th[p].res = "ok")
      => lockRoot[trail.last.key] # th[p].tx

\* C34: in notify_failed_transaction of a transaction that had a lock list,
\* the deletion of the transaction node is issued once, after the deletions
\* of the children: no deletion of a child follows it.
TxNodeDeleteIssuedOnce ==
  [][\A p \in LoneCaller :
       (/\ th[p].op = "notify_failed_transaction"
        /\ th[p].pc = "nf_delete_tx"
        /\ PreLockpath[th[p].tx] # <<>>)
         => th'[p].pc # "nf_delete_item"]_vars

\* C35: notify_failed_transaction of a transaction that has no lockpath
\* child adds nothing to the blacklist and to the valid list, and leaves the
\* transaction node, its xg marker and its updated-key children as they were.
NotifyWithoutLockpathChangesNothing ==
  \A p \in LoneCaller :
    (/\ th[p].pc = "done"
     /\ th[p].op = "notify_failed_transaction"
     /\ PreLockpath[th[p].tx] = <<>>)
      => /\ blacklist = PreBlacklist
         /\ validlist = PreValidlist
         /\ txNode = PreTxNode
         /\ xgNode = PreXgNode
         /\ ukeys = PreUkeys

\* The lock roots that the lock list of transaction t named when the
\* current call began.
ListedRoots(t) == {PreLockpath[t][i] : i \in 1 .. Len(PreLockpath[t])}

\* C36: during release_lock and after it, at every step where the caller
\* might stop, a lock root that the transaction's lock list named exists only
\* while the transaction node exists.
ListedRootOutlivedByTxNode ==
  \A p \in LoneCaller :
    th[p].op = "release_lock"
      => \A k \in ListedRoots(th[p].tx) :
           lockRoot[k] # NoTx => TxExists(th[p].tx)

\* release_lock has deleted one of the two listed lock roots of an XG
\* transaction; the other root and the transaction node are still there.
ReleaseBetweenTwoRoots ==
  \E p \in LoneCaller :
    /\ th[p].op = "release_lock"
    /\ th[p].pc = "rl_delete_lock"
    /\ TxExists(th[p].tx)
    /\ \E k \in ListedRoots(th[p].tx) : lockRoot[k] = NoTx
    /\ \E k \in ListedRoots(th[p].tx) : lockRoot[k] = th[p].tx

\* C37: a deletion of a lock root by release_lock or by
\* notify_failed_transaction of transaction t never removes a lock root
\* whose value is another transaction.
OnlyOwnLockRootDeleted ==
  [][\A p \in Threads :
       (/\ th[p].pc \in {"rl_delete_lock", "nf_delete_lock"}
        /\ th'[p] # th[p])
         => lockRoot[Head(th[p].locks)] \in {NoTx, th[p].tx}]_vars

\* C38: whenever gc_running is true, a garbage-collector worker thread is
\* alive.
GcRunningHasWorker ==
  coord.gc_running => \E g \in GcThreads : th[g].pc # "gc_exit"

\* The worker threads that have been started and have not ended.
AliveWorkers == {w \in GcWorkerThreads : th[w].pc \notin {"unstarted", "gc_exit"}}

\* C39: whatever the order of the steps of start_gc and stop_gc calls of
\* concurrent callers, at most one garbage-collector worker thread is alive.
AtMostOneWorkerAlive == Cardinality(AliveWorkers) <= 1

\* C40: an invocation of the function that follows a reconnect of the call
\* runs on the session handle that reestablish_connection created last, not
\* on one that it has stopped.
RetryRunsOnNewHandle ==
  \A p \in LoneCaller :
    (th[p].pc = "rwt_call" /\ th[p].conns > 0)
      => FunctionHandle(th[p]) = CurrentHandle(th[p])

====
